---- MODULE Spec2Model ----
(***************************************************************************)
(* State-machine model of vsketch's geometry-accumulation engine:          *)
(*   - the transform stack of Vsketch (vsketch/vsketch.py, vsketch/utils.py)*)
(*   - the styled path insertion Vsketch._add_polygon, stylize_path        *)
(*     (vsketch/style.py) and generate_fill (vsketch/fill.py)              *)
(*   - the boolean shape engine Shape (vsketch/shape.py)                   *)
(*                                                                         *)
(* Numbers are integers.  Lengths are expressed in a unit in which pen     *)
(* widths are whole numbers; rotations are whole quarter turns, for which  *)
(* cos and sin are exact.  Python's None is the empty tuple << >> and a    *)
(* present optional value v is the 1-tuple <<v>>.                          *)
(***************************************************************************)
EXTENDS Integers, Sequences, FiniteSets, TLC

VARIABLES
    transform_stack,     \* Vsketch._transform_stack : list of 3x3 matrices
    cur_stroke,          \* Vsketch._cur_stroke      : None or layer id
    cur_fill,            \* Vsketch._cur_fill        : None or layer id
    stroke_weight,       \* Vsketch._stroke_weight
    join_style,          \* Vsketch._join_style
    pen_width,           \* Vsketch._pen_width       : dict layer id -> width
    default_pen_width,   \* Vsketch._default_pen_width
    document,            \* Vsketch._document.layers : dict layer id -> list of polylines
    sub_document,        \* the same, for the second Vsketch of the script
    shapes,              \* the Shape objects of the script, by name
    params,              \* the Param objects of the sketch class, by attribute name
    rng,                 \* the random generators: of each Vsketch and of the process
    _detail,             \* Vsketch._detail
    sketch_obj,          \* the SketchClass instance that execute() returned last
    viewer,              \* the SketchViewer, its runner threads and its signal queue
    param_spec,          \* the _ParamSpec that `vsk save` is building from a --param option
    withs,               \* the `with` blocks the script is inside of (innermost last)
    saved,               \* script-side record of the transform seen before each open pushMatrix
    hist,                \* the calls made so far, when the run records them
    last,                \* the most recent call and whether it returned normally
    returned,            \* what the most recent call returned (None if nothing)
    ncalls,              \* number of calls made so far
    harness              \* the run: how many calls it makes and whether it records them

vars == <<transform_stack, cur_stroke, cur_fill, stroke_weight, join_style, pen_width,
          default_pen_width, document, sub_document, shapes, params, rng, _detail,
          sketch_obj, viewer, param_spec, withs, saved, hist, last, returned, ncalls,
          harness>>

styleVars == <<cur_stroke, cur_fill, stroke_weight, join_style, pen_width, default_pen_width>>

\* the Vsketch, its Shapes and the script's own records
drawVars == <<transform_stack, styleVars, document, sub_document, shapes, withs, saved>>

\* what the drawing calls on lines and shapes never touch
classVars == <<params, rng, _detail, sketch_obj, viewer, param_spec>>

\* what a validated assignment of a parameter never touches
notParams == <<drawVars, rng, _detail, sketch_obj, viewer, param_spec>>

\* what seeding and sampling never touch
notRandom == <<drawVars, params, _detail, sketch_obj, viewer, param_spec>>

(***************************************************************************)
(* Bounds of the exploration                                               *)
(***************************************************************************)
MaxCalls == 5        \* calls per run in SpecM
MaxHist == 3         \* calls per run in SpecT (every call is recorded in hist)
MaxDrawCalls == 3    \* calls per run in SpecD
MaxDrawWeight == 3   \* largest stroke weight tried in SpecD
MaxWeightCalls == 3  \* calls per run in SpecW
MaxWeight == 14      \* largest stroke weight tried in SpecW
MaxShapeCalls == 4   \* calls per run in SpecS
MaxCompileCalls == 5 \* calls per run in SpecC
MaxRenderCalls == 4  \* calls per run in SpecV
MaxResetCalls == 5   \* calls per run in SpecR
MaxGeometryCalls == 3 \* calls per run in SpecG
MaxPointCalls == 4   \* calls per run in SpecP
MaxPointWeight == 3  \* largest stroke weight tried in SpecP
MaxParamCalls == 3   \* calls per run in SpecA
MaxRandomCalls == 4  \* calls per run in SpecN
MaxBezierCalls == 3  \* calls per run in SpecB
MaxExecuteCalls == 3  \* calls per run in SpecE
MaxFillCalls == 4     \* calls per run in SpecF
MaxFillWeight == 2    \* largest stroke weight tried in SpecF
MaxParseCalls == 3    \* --param values parsed per run in SpecL
MaxValues == 8        \* values of a range that the model keeps
MaxFloat == 50        \* the floats of SpecL, in tenths, end at -MaxFloat
MaxRedraws == 3       \* calls of redraw_sketch per run in SpecQ

(***************************************************************************)
(* Generic helpers                                                         *)
(***************************************************************************)
None == << >>

Some(v) == <<v>>

Last(s) == s[Len(s)]

Front(s) == SubSeq(s, 1, Len(s) - 1)

IsPrefix(s, t) == Len(s) <= Len(t) /\ SubSeq(t, 1, Len(s)) = s

Abs(n) == IF n < 0 THEN -n ELSE n

Min(a, b) == IF a <= b THEN a ELSE b

Max(a, b) == IF a >= b THEN a ELSE b

\* Python truthiness of an optional int: None and 0 are falsy
Truthy(opt) == opt # None /\ opt[1] # 0

(***************************************************************************)
(* 3x3 matrices (numpy arrays of shape (3, 3)), as tuples of rows          *)
(***************************************************************************)
Identity3 == << <<1, 0, 0>>, <<0, 1, 0>>, <<0, 0, 1>> >>

\* numpy's A @ B
MatMul(A, B) ==
    [i \in 1..3 |-> [j \in 1..3 |->
        A[i][1] * B[1][j] + A[i][2] * B[2][j] + A[i][3] * B[3][j]]]

\* np.diag([scale_x, scale_y, 1])
ScaleMatrix(scale_x, scale_y) == << <<scale_x, 0, 0>>, <<0, scale_y, 0>>, <<0, 0, 1>> >>

\* cos and sin of q quarter turns
CosQ(q) == CASE q % 4 = 0 -> 1 [] q % 4 = 1 -> 0 [] q % 4 = 2 -> -1 [] OTHER -> 0

SinQ(q) == CASE q % 4 = 0 -> 0 [] q % 4 = 1 -> 1 [] q % 4 = 2 -> 0 [] OTHER -> -1

RotateMatrix(q) ==
    << <<CosQ(q), -SinQ(q), 0>>, <<SinQ(q), CosQ(q), 0>>, <<0, 0, 1>> >>

\* the translation laid out for row vectors
TranslateMatrixRow(dx, dy) == << <<1, 0, 0>>, <<0, 1, 0>>, <<dx, dy, 1>> >>

TranslateMatrix(dx, dy) == << <<1, 0, dx>>, <<0, 1, dy>>, <<0, 0, 1>> >>

(***************************************************************************)
(* Vsketch.transform property                                              *)
(***************************************************************************)
\* getter: self._transform_stack[-1]
Transform(stack) == stack[Len(stack)]

SetTransformBottom(stack, t) == [stack EXCEPT ![1] = t]

\* setter: self._transform_stack[-1] = t
SetTransform(stack, t) == [stack EXCEPT ![Len(stack)] = t]

\* pushMatrix: self._transform_stack.append(self.transform.copy())
PushFrame(stack) == Append(stack, Transform(stack))

PopFailsOffByOne(stack) == Len(stack) <= 2

\* popMatrix's guard: len(self._transform_stack) == 1
PopFails(stack) == Len(stack) = 1

\* popMatrix: self._transform_stack.pop()
PopFrame(stack) == SubSeq(stack, 1, Len(stack) - 1)

(***************************************************************************)
(* Bookkeeping of a call: what was called, with what, and how it ended     *)
(***************************************************************************)
CallRec(op, args, sarg, ok) == [op |-> op, args |-> args, sarg |-> sarg, ok |-> ok]

\* the record of a call that returns the value ret
CallStep(op, args, sarg, ok, ret) ==
    /\ ncalls < harness.limit
    /\ last' = CallRec(op, args, sarg, ok)
    /\ returned' = ret
    /\ ncalls' = ncalls + 1
    /\ hist' = IF harness.trace THEN Append(hist, CallRec(op, args, sarg, ok)) ELSE hist
    /\ UNCHANGED harness

\* a call on the Vsketch or on a Shape that returns the value ret
CalledReturning(op, args, sarg, ok, ret) ==
    /\ CallStep(op, args, sarg, ok, ret)
    /\ UNCHANGED classVars

\* a call that returns nothing
Called(op, args, sarg, ok) == CalledReturning(op, args, sarg, ok, None)

(***************************************************************************)
(* Values of a freshly constructed Vsketch and Shape                       *)
(***************************************************************************)
DefaultPenWidth == 1

\* vp.convert_length("0.1mm"), in the units of the bezier inputs
DefaultDetail == 100

\* the viewer before its first redraw: no thread, no sketch, nothing queued
ViewerStart == [thread |-> None, sketch |-> None, threads |-> << >>, queue |-> << >>]

EmptyShape == [polygon |-> {}, lines |-> << >>, points |-> << >>]

EmptyDoc == [l \in {} |-> << >>]

(***************************************************************************)
(* Transform-stack operations, as state changes of transform_stack.        *)
(* Each returns the new stack; a failing call leaves the stack as it was.  *)
(***************************************************************************)
\* ResetMatrixContextManager.__init__ : what a bare vsk.resetMatrix() does
resetMatrixStack(stack) == SetTransform(stack, Identity3)

resetMatrixEnterNoRestore(stack) == PushFrame(SetTransform(stack, Identity3))

\* ResetMatrixContextManager.__init__ followed by __enter__
resetMatrixEnterStack(stack) ==
    LET old == Transform(stack)
        s1 == SetTransform(stack, Identity3)
        s2 == SetTransform(s1, old)
        s3 == PushFrame(s2)
    IN  SetTransform(s3, Identity3)

\* scale(sx, sy=None)
scaleStack(stack, sx, sy) ==
    LET scale_x == sx
        scale_y == IF sy = None THEN scale_x ELSE sy[1]
    IN  SetTransform(stack, MatMul(Transform(stack), ScaleMatrix(scale_x, scale_y)))

\* rotate(angle, degrees): angle is in quarter turns, or in degrees if degrees
rotateStack(stack, angle, degrees) ==
    LET q == IF degrees THEN angle \div 90 ELSE angle
    IN  SetTransform(stack, MatMul(Transform(stack), RotateMatrix(q)))

translateLeft(stack, dx, dy) ==
    SetTransform(stack, MatMul(TranslateMatrix(dx, dy), Transform(stack)))

\* translate(dx, dy)
translateStack(stack, dx, dy) ==
    SetTransform(stack, MatMul(Transform(stack), TranslateMatrix(dx, dy)))

(***************************************************************************)
(* Inputs of the transform calls                                           *)
(***************************************************************************)
ScaleArgs == { <<2, None>>, <<3, Some(2)>> }

RotateArgs == { <<1, FALSE>>, <<-90, TRUE>> }

TranslateArgs == { <<5, 3>> }

(***************************************************************************)
(* Actions on the transform stack.  `enabled` is the call budget.          *)
(***************************************************************************)
\* the part of the state a transform call never touches
notTransform == <<cur_stroke, cur_fill, stroke_weight, join_style, pen_width,
                  default_pen_width, document, sub_document, shapes>>

SavedRec(stack) == [t |-> Transform(stack), depth |-> Len(stack)]

pushMatrix ==
    /\ transform_stack' = PushFrame(transform_stack)
    /\ saved' = Append(saved, SavedRec(transform_stack))
    /\ Called("pushMatrix", << >>, "", TRUE)
    /\ UNCHANGED <<withs, notTransform>>

\* `with vsk.pushMatrix():` -- pushMatrix, then MatrixPopper.__enter__
withPushMatrix ==
    /\ transform_stack' = PushFrame(transform_stack)
    /\ saved' = Append(saved, SavedRec(transform_stack))
    /\ withs' = Append(withs, "MatrixPopper")
    /\ Called("with pushMatrix", << >>, "", TRUE)
    /\ UNCHANGED notTransform

\* the stack change of popMatrix, shared by the call and by the handles'
\* __exit__ (for which args names the handle)
popMatrixEffectOf(op, args) ==
    IF PopFails(transform_stack)
    THEN /\ Called(op, args, "RuntimeError", FALSE)
         /\ UNCHANGED <<transform_stack, saved>>
    ELSE /\ transform_stack' = PopFrame(transform_stack)
         /\ saved' = Front(saved)
         /\ Called(op, args, "", TRUE)

popMatrixEffect(op) == popMatrixEffectOf(op, << >>)

popMatrix ==
    /\ popMatrixEffect("popMatrix")
    /\ UNCHANGED <<withs, notTransform>>

\* leaving the innermost `with` block: MatrixPopper.__exit__ or
\* ResetMatrixContextManager.__exit__, both of which call popMatrix
withExit ==
    /\ withs # << >>
    /\ withs' = Front(withs)
    /\ popMatrixEffectOf("__exit__", <<Last(withs)>>)
    /\ UNCHANGED notTransform

resetMatrix ==
    /\ transform_stack' = resetMatrixStack(transform_stack)
    /\ Called("resetMatrix", << >>, "", TRUE)
    /\ UNCHANGED <<saved, withs, notTransform>>

\* `with vsk.resetMatrix():`
withResetMatrix ==
    /\ transform_stack' = resetMatrixEnterStack(transform_stack)
    /\ saved' = Append(saved, SavedRec(transform_stack))
    /\ withs' = Append(withs, "ResetMatrixContextManager")
    /\ Called("with resetMatrix", << >>, "", TRUE)
    /\ UNCHANGED notTransform

scale ==
    \E a \in ScaleArgs :
        /\ transform_stack' = scaleStack(transform_stack, a[1], a[2])
        /\ Called("scale", <<a[1]>> \o a[2], "", TRUE)
        /\ UNCHANGED <<saved, withs, notTransform>>

rotate ==
    \E a \in RotateArgs :
        /\ transform_stack' = rotateStack(transform_stack, a[1], a[2])
        /\ Called("rotate", <<a[1]>>, IF a[2] THEN "degrees" ELSE "", TRUE)
        /\ UNCHANGED <<saved, withs, notTransform>>

translate ==
    \E a \in TranslateArgs :
        /\ transform_stack' = translateStack(transform_stack, a[1], a[2])
        /\ Called("translate", a, "", TRUE)
        /\ UNCHANGED <<saved, withs, notTransform>>

(***************************************************************************)
(* Paths and polylines.                                                    *)
(* A path is a sequence of points <<x, y>> (a numpy array of complex).     *)
(* A polyline of the document is a record:                                 *)
(*   kind "path"     : the points pts themselves                           *)
(*   kind "circle"   : vp.circle centred on pts[1], of diameter diam       *)
(*   kind "exterior" / "interior" : a ring of shapely's buffer of the base *)
(*                     line (pts, diam) at distance d/2, joined with join  *)
(*   kind "hatch"    : the merged scanline comb of generate_fill; pts are  *)
(*                     the scanline end points, in half units              *)
(*   kind "boundary" : a ring of the boundary of the filled polygon; pts   *)
(*                     are its corners, in half units                      *)
(* xf is the transform applied to the polyline after it was built (by      *)
(* Vsketch.sketch); a "path" has it applied to its points instead.         *)
(***************************************************************************)
Polyline(kind, pts, diam, d, join) ==
    [kind |-> kind, pts |-> pts, diam |-> diam, d |-> d, join |-> join, xf |-> Identity3]

PathLine(pts) == Polyline("path", pts, 0, 0, "")

\* np.vstack / reshape / @ of _transform_line, for a matrix t
TransformPath(t, line) ==
    [i \in 1..Len(line) |->
        << t[1][1] * line[i][1] + t[1][2] * line[i][2] + t[1][3],
           t[2][1] * line[i][1] + t[2][2] * line[i][2] + t[2][3] >>]

\* Vsketch._transform_line
transform_line(line) == TransformPath(Transform(transform_stack), line)

\* the same map applied to a polyline that is already in a document
TransformPolyline(pl) ==
    IF pl.kind = "path"
    THEN [pl EXCEPT !.pts = transform_line(pl.pts)]
    ELSE [pl EXCEPT !.xf = MatMul(Transform(transform_stack), pl.xf)]

MinOf(S) == CHOOSE m \in S : \A n \in S : m <= n

MaxOf(S) == CHOOSE m \in S : \A n \in S : m >= n

\* bounding box <<min_x, min_y, max_x, max_y>> of a path
Bounds(pts) ==
    LET xs == {pts[i][1] : i \in 1..Len(pts)}
        ys == {pts[i][2] : i \in 1..Len(pts)}
    IN  <<MinOf(xs), MinOf(ys), MaxOf(xs), MaxOf(ys)>>

\* a line is closed when its first and last points coincide
IsClosed(pl) == pl.kind = "circle" \/ pl.pts[1] = pl.pts[Len(pl.pts)]

\* width of the narrowest part of the area enclosed by a closed line:
\* the diameter of a circle, the shorter side of a rectangle
InnerWidth(pl) ==
    IF pl.kind = "circle" THEN pl.diam
    ELSE LET b == Bounds(pl.pts) IN Min(b[3] - b[1], b[4] - b[2])

(***************************************************************************)
(* vpype.Document.add(lc, layer_id): extend the layer, creating it first   *)
(***************************************************************************)
DocAddReplace(doc, lc, layer_id) ==
    [l \in DOMAIN doc \cup {layer_id} |-> IF l = layer_id THEN lc ELSE doc[l]]

DocAdd(doc, lc, layer_id) ==
    [l \in DOMAIN doc \cup {layer_id} |->
        IF l = layer_id
        THEN (IF l \in DOMAIN doc THEN doc[l] \o lc ELSE lc)
        ELSE doc[l]]

(***************************************************************************)
(* style.py                                                                *)
(***************************************************************************)
\* geom.buffer(radius, ...) followed by _add_to_line_collection: the exterior
\* of the buffer, then its interiors.  The buffer of an open line has no
\* interior; the buffer of a closed line has one as long as the buffer does
\* not fill the enclosed area, that is while 2 * radius < its inner width.
\* r2 is the radius doubled.
BufferRings(line, r2, join) ==
    <<Polyline("exterior", line.pts, line.diam, r2, join)>> \o
    (IF IsClosed(line) /\ r2 < InnerWidth(line)
     THEN <<Polyline("interior", line.pts, line.diam, r2, join)>>
     ELSE << >>)

RECURSIVE BufferLoop(_, _, _, _, _)
\* the loop `for i in range((weight - 1) // 2)` from iteration i on, with the
\* doubled radius r2 reached so far
BufferLoop(line, i, r2, pw, join) ==
    IF i = 0 THEN << >>
    ELSE BufferRings(line, r2 + 2 * pw, join) \o BufferLoop(line, i - 1, r2 + 2 * pw, pw, join)

stylize_path_single(line, weight, pw, join) == <<line>>

\* stylize_path(line, weight, pen_width, detail, join_style); detail only sets
\* the number of points of the round joins
stylize_path(line, weight, pw, join) ==
    IF weight = 1 THEN <<line>>
    ELSE IF weight % 2 = 0
         THEN BufferRings(line, pw, join)
                \o BufferLoop(line, (weight - 1) \div 2, pw, pw, join)
         ELSE <<line>> \o BufferLoop(line, (weight - 1) \div 2, 0, pw, join)

(***************************************************************************)
(* fill.py.  The polygon is an axis-aligned rectangle with, possibly, a    *)
(* centred rectangular hole, for which shapely's negative buffer is exact: *)
(* every side moves inwards by the distance.  Coordinates of the result    *)
(* are in half units (doubled), so that stroke_width / 2 and pen_width / 2 *)
(* stay whole.                                                             *)
(***************************************************************************)
\* narrowest band of the polygon: the gap between the exterior and the hole,
\* or the shorter side when there is no hole
BandWidth(ext, holes) ==
    LET b == Bounds(ext) IN
    IF holes = << >> THEN Min(b[3] - b[1], b[4] - b[2])
    ELSE LET h == Bounds(holes[1]) IN
         Max(Max(h[1] - b[1], b[3] - h[3]), Max(h[2] - b[2], b[4] - h[4]))

\* ceil(a / b) for b > 0
CeilDiv(a, b) == (a + b - 1) \div b

\* p.is_empty, for p = poly.buffer(-stroke_width / 2) if stroke_width > 0 else poly
InsetEmpty(ext, holes, sw) == sw > 0 /\ BandWidth(ext, holes) <= sw

\* p.bounds, doubled
InsetBounds(ext, sw) ==
    LET b == Bounds(ext)
        inset == IF sw > 0 THEN sw ELSE 0
    IN  <<2 * b[1] + inset, 2 * b[2] + inset, 2 * b[3] - inset, 2 * b[4] - inset>>

\* math.ceil(height / pen_width) + 1
FillLineCount(height, pw) == CeilDiv(height, pw) + 1

\* a comb that starts on the lower edge of the bounding box
FillYStartOnEdge(min_y, height, pw) == min_y

\* y_start = min_y + (height - (line_count - 1) * pen_width) / 2
FillYStart(min_y, height, pw) == min_y + (height - (FillLineCount(height, pw) - 1) * pw) \div 2

\* generate_fill(poly, pen_width, stroke_width), poly = Polygon(ext, holes)
generate_fill(ext, holes, pw, sw) ==
    LET inset == IF sw > 0 THEN sw ELSE 0
        p_empty == InsetEmpty(ext, holes, sw)
        min_x == InsetBounds(ext, sw)[1]
        min_y == InsetBounds(ext, sw)[2]
        max_x == InsetBounds(ext, sw)[3]
        max_y == InsetBounds(ext, sw)[4]
        height == max_y - min_y
        line_count == FillLineCount(height, 2 * pw)
        y_start == FillYStart(min_y, height, 2 * pw)
        seg(n) == IF n % 2 = 0
                  THEN << <<min_x, y_start + 2 * pw * n>>, <<max_x, y_start + 2 * pw * n>> >>
                  ELSE << <<max_x, y_start + 2 * pw * n>>, <<min_x, y_start + 2 * pw * n>> >>
        \* .intersection(p.buffer(-pen_width / 2)) keeps the scanlines that cross
        \* the polygon inset by half a pen width
        inner_empty == BandWidth(ext, holes) * 2 - 2 * inset <= 2 * pw
        kept == {n \in 0..(line_count - 1) :
                    /\ ~inner_empty
                    /\ y_start + 2 * pw * n >= min_y + pw
                    /\ y_start + 2 * pw * n <= max_y - pw}
        RECURSIVE comb(_)
        comb(n) == IF n >= line_count THEN << >>
                   ELSE (IF n \in kept THEN seg(n) ELSE << >>) \o comb(n + 1)
        \* lc.merge(tolerance=pen_width * 5, flip=True) joins the kept scanlines
        hatch == IF kept = {} THEN << >>
                 ELSE <<Polyline("hatch", comb(0), 0, 0, "")>>
        corners == << <<min_x, min_y>>, <<max_x, min_y>>, <<max_x, max_y>>,
                      <<min_x, max_y>>, <<min_x, min_y>> >>
        hole_ring(i) ==
            LET h == Bounds(holes[i]) IN
            Polyline("boundary",
                     << <<2 * h[1] - inset, 2 * h[2] - inset>>, <<2 * h[3] + inset, 2 * h[2] - inset>>,
                        <<2 * h[3] + inset, 2 * h[4] + inset>>, <<2 * h[1] - inset, 2 * h[4] + inset>>,
                        <<2 * h[1] - inset, 2 * h[2] - inset>> >>, 0, 0, "")
        \* p.boundary: the exterior ring, then one ring per hole
        boundary == <<Polyline("boundary", corners, 0, 0, "")>>
                        \o [i \in 1..Len(holes) |-> hole_ring(i)]
    IN  IF p_empty THEN << >> ELSE hatch \o boundary

(***************************************************************************)
(* Vsketch: pen widths and path insertion                                  *)
(***************************************************************************)
\* Vsketch.strokePenWidth
strokePenWidth ==
    IF cur_stroke # None
    THEN (IF cur_stroke[1] \in DOMAIN pen_width
          THEN pen_width[cur_stroke[1]]
          ELSE default_pen_width)
    ELSE 0

\* Vsketch.fillPenWidth (read only while a fill layer is active)
fillPenWidth ==
    IF cur_fill # None
    THEN Some(IF cur_fill[1] \in DOMAIN pen_width
              THEN pen_width[cur_fill[1]]
              ELSE default_pen_width)
    ELSE None

RECURSIVE StylizeAll(_)
\* the loop over [transformed_exterior] + transformed_holes of _add_polygon
StylizeAll(lines) ==
    IF lines = << >> THEN << >>
    ELSE stylize_path(PathLine(lines[1]), stroke_weight, strokePenWidth, join_style)
            \o StylizeAll(Tail(lines))

FillNeedsClosed(te) == Len(te) > 2 /\ te[1] = te[Len(te)]

\* the test `len(transformed_exterior) > 2` of _add_polygon
FillableLength(te) == Len(te) > 2

add_polygon_stroke_always(exterior, holes) ==
    DocAdd(document, StylizeAll(<<transform_line(exterior)>>), 1)

\* Vsketch._add_polygon(exterior, holes) when the document is doc: the
\* document afterwards
add_polygon_to(doc, exterior, holes) ==
    LET transformed_exterior == transform_line(exterior)
        transformed_holes == [i \in 1..Len(holes) |-> transform_line(holes[i])]
        doc1 == IF Truthy(cur_stroke)
                THEN DocAdd(doc,
                            StylizeAll(<<transformed_exterior>> \o transformed_holes),
                            cur_stroke[1])
                ELSE doc
    IN  IF Truthy(cur_fill) /\ FillableLength(transformed_exterior)
        THEN DocAdd(doc1,
                    generate_fill(transformed_exterior, transformed_holes,
                                  fillPenWidth[1], stroke_weight * strokePenWidth),
                    cur_fill[1])
        ELSE doc1

\* Vsketch._add_polygon(exterior, holes) as the whole of a call
add_polygon(exterior, holes) == add_polygon_to(document, exterior, holes)

point_to_filled(doc, x, y) ==
    LET center == transform_line(<< <<x, y>> >>)
        circle == Polyline("circle", center, strokePenWidth, 0, "")
        doc1 == IF Truthy(cur_stroke)
                THEN DocAdd(doc, stylize_path(circle, stroke_weight, strokePenWidth, "round"),
                            cur_stroke[1])
                ELSE doc
    IN  IF Truthy(cur_fill)
        THEN DocAdd(doc1, generate_fill(<<center[1], center[1], center[1]>>, << >>,
                                        fillPenWidth[1], 0), cur_fill[1])
        ELSE doc1

\* Vsketch.point(x, y) when the document is doc: the document afterwards
point_to(doc, x, y) ==
    IF Truthy(cur_stroke)
    THEN LET center == transform_line(<< <<x, y>> >>)
             circle == Polyline("circle", center, strokePenWidth, 0, "")
         IN  DocAdd(doc,
                    stylize_path(circle, stroke_weight, strokePenWidth, "round"),
                    cur_stroke[1])
    ELSE doc

\* Vsketch.point(x, y) as the whole of a call
point_doc(x, y) == point_to(document, x, y)

\* the document the second Vsketch of the script holds, built by
\*   sub = Vsketch(); sub.rect(0, 0, 1, 1); sub.stroke(3); sub.line(0, 0, 1, 1)
SubDocument ==
    [l \in {1, 3} |->
        IF l = 1
        THEN <<PathLine(<< <<0, 0>>, <<1, 0>>, <<1, 1>>, <<0, 1>>, <<0, 0>> >>)>>
        ELSE <<PathLine(<< <<0, 0>>, <<1, 1>> >>)>>]

\* sub_sketch._document.layers, for sub_sketch the Vsketch itself ("self")
\* or the second one ("sub"), given the document of the Vsketch itself
LayersOf(sub_sketch, doc) == IF sub_sketch = "self" THEN doc ELSE sub_document

RECURSIVE SketchLayersOnStroke(_, _, _)
SketchLayersOnStroke(sub_sketch, todo, doc) ==
    IF todo = {} THEN doc
    ELSE LET layer_id == CHOOSE l \in todo : TRUE
             layer == LayersOf(sub_sketch, doc)[layer_id]
             lc == [i \in 1..Len(layer) |-> TransformPolyline(layer[i])]
         IN  SketchLayersOnStroke(sub_sketch, todo \ {layer_id},
                                  IF Truthy(cur_stroke) THEN DocAdd(doc, lc, cur_stroke[1])
                                  ELSE doc)

RECURSIVE SketchLayers(_, _, _)
\* Vsketch.sketch(sub_sketch): the loop over sub_sketch._document.layers for
\* the layer ids `todo` still to visit, doc being the document reached so far
SketchLayers(sub_sketch, todo, doc) ==
    IF todo = {} THEN doc
    ELSE LET layer_id == CHOOSE l \in todo : TRUE
             layer == LayersOf(sub_sketch, doc)[layer_id]
             lc == [i \in 1..Len(layer) |-> TransformPolyline(layer[i])]
         IN  SketchLayers(sub_sketch, todo \ {layer_id}, DocAdd(doc, lc, layer_id))

sketch_doc_live(sub_sketch) ==
    SketchLayers(sub_sketch, DOMAIN LayersOf(sub_sketch, document),
                 SketchLayers(sub_sketch, DOMAIN LayersOf(sub_sketch, document), document))

\* Vsketch.sketch(sub_sketch): the document afterwards
sketch_doc(sub_sketch) ==
    SketchLayers(sub_sketch, DOMAIN LayersOf(sub_sketch, document), document)

\* vp.rect(x, y, w, h) without corner radii
RectPath(x, y, w, h) ==
    << <<x, y>>, <<x + w, y>>, <<x + w, y + h>>, <<x, y + h>>, <<x, y>> >>

\* polygon(...): `if close and line[-1] != line[0]: line = np.hstack([line, line[0]])`
ClosePath(line, close) ==
    IF close /\ line[Len(line)] # line[1] THEN Append(line, line[1]) ELSE line

(***************************************************************************)
(* Style setters of Vsketch                                                *)
(***************************************************************************)
LayerArgs == {0, 1, 2}

WeightArgs == 0..harness.max_weight

JoinArgs == {"round", "mitre", "bevel", "flat"}

PenWidthArgs == { <<2, None>>, <<2, Some(1)>>, <<1, Some(0)>> }

\* what a style setter or a drawing call never touches
notStyle == <<transform_stack, document, sub_document, shapes, withs, saved>>

stroke ==
    \E c \in LayerArgs :
        IF c < 1
        THEN /\ Called("stroke", <<c>>, "ValueError", FALSE)
             /\ UNCHANGED <<styleVars, notStyle>>
        ELSE /\ cur_stroke' = Some(c)
             /\ Called("stroke", <<c>>, "", TRUE)
             /\ UNCHANGED <<cur_fill, stroke_weight, join_style, pen_width,
                            default_pen_width, notStyle>>

noStroke ==
    /\ cur_stroke' = None
    /\ Called("noStroke", << >>, "", TRUE)
    /\ UNCHANGED <<cur_fill, stroke_weight, join_style, pen_width, default_pen_width, notStyle>>

strokeWeight ==
    \E weight \in WeightArgs :
        IF weight < 1
        THEN /\ Called("strokeWeight", <<weight>>, "ValueError", FALSE)
             /\ UNCHANGED <<styleVars, notStyle>>
        ELSE /\ stroke_weight' = weight
             /\ Called("strokeWeight", <<weight>>, "", TRUE)
             /\ UNCHANGED <<cur_stroke, cur_fill, join_style, pen_width,
                            default_pen_width, notStyle>>

strokeJoin ==
    \E js \in JoinArgs :
        IF js \notin {"round", "mitre", "bevel"}
        THEN /\ Called("strokeJoin", << >>, "ValueError", FALSE)
             /\ UNCHANGED <<styleVars, notStyle>>
        ELSE /\ join_style' = js
             /\ Called("strokeJoin", << >>, js, TRUE)
             /\ UNCHANGED <<cur_stroke, cur_fill, stroke_weight, pen_width,
                            default_pen_width, notStyle>>

fill ==
    \E c \in LayerArgs :
        IF c < 1
        THEN /\ Called("fill", <<c>>, "ValueError", FALSE)
             /\ UNCHANGED <<styleVars, notStyle>>
        ELSE /\ cur_fill' = Some(c)
             /\ Called("fill", <<c>>, "", TRUE)
             /\ UNCHANGED <<cur_stroke, stroke_weight, join_style, pen_width,
                            default_pen_width, notStyle>>

noFill ==
    /\ cur_fill' = None
    /\ Called("noFill", << >>, "", TRUE)
    /\ UNCHANGED <<cur_stroke, stroke_weight, join_style, pen_width, default_pen_width, notStyle>>

penWidth ==
    \E a \in PenWidthArgs :
        LET w == a[1]
            layer == a[2]
        IN  IF layer # None
            THEN IF layer[1] < 1
                 THEN /\ Called("penWidth", <<w>> \o layer, "ValueError", FALSE)
                      /\ UNCHANGED <<styleVars, notStyle>>
                 ELSE /\ pen_width' = [l \in DOMAIN pen_width \cup {layer[1]} |->
                                          IF l = layer[1] THEN w ELSE pen_width[l]]
                      /\ Called("penWidth", <<w>> \o layer, "", TRUE)
                      /\ UNCHANGED <<cur_stroke, cur_fill, stroke_weight, join_style,
                                     default_pen_width, notStyle>>
            ELSE /\ default_pen_width' = w
                 /\ Called("penWidth", <<w>>, "", TRUE)
                 /\ UNCHANGED <<cur_stroke, cur_fill, stroke_weight, join_style,
                                pen_width, notStyle>>

(***************************************************************************)
(* Drawing calls of Vsketch.  Each builds its path and hands it to         *)
(* _add_polygon; point and sketch add to the document themselves.          *)
(***************************************************************************)
LineArgs == { <<0, 0, 4, 0>> }

RectArgs == { <<0, 0, 30, 30>>, <<0, 0, 2, 2>> }

SquareArgs == { <<1, 1, 3>> }

QuadArgs == { <<0, 0, 4, 0, 4, 4, 0, 4>> }

PointArgs == { <<2, 4>> }

\* <<points, holes, close>>
PolygonArgs ==
    { << << <<0, 0>>, <<4, 0>>, <<4, 4>>, <<0, 4>> >>, << >>, FALSE >>,
      << << <<0, 0>>, <<4, 0>>, <<4, 4>>, <<0, 4>> >>, << >>, TRUE >>,
      << RectPath(0, 0, 6, 6), << RectPath(2, 2, 2, 2) >>, FALSE >> }

SketchArgs == {"self", "sub"}

\* what a drawing call leaves alone, besides the document
notDocument == <<transform_stack, styleVars, sub_document, shapes, withs, saved>>

line ==
    \E a \in LineArgs :
        /\ document' = add_polygon(<< <<a[1], a[2]>>, <<a[3], a[4]>> >>, << >>)
        /\ Called("line", a, "", TRUE)
        /\ UNCHANGED notDocument

\* rect(x, y, w, h) in the default "corner" mode, without corner radii
rect ==
    \E a \in RectArgs :
        /\ document' = add_polygon(RectPath(a[1], a[2], a[3], a[4]), << >>)
        /\ Called("rect", a, "", TRUE)
        /\ UNCHANGED notDocument

\* square(x, y, extent): self.rect(x, y, extent, extent, mode=mode)
square ==
    \E a \in SquareArgs :
        /\ document' = add_polygon(RectPath(a[1], a[2], a[3], a[3]), << >>)
        /\ Called("square", a, "", TRUE)
        /\ UNCHANGED notDocument

quad ==
    \E a \in QuadArgs :
        /\ document' = add_polygon(<< <<a[1], a[2]>>, <<a[3], a[4]>>, <<a[5], a[6]>>,
                                      <<a[7], a[8]>>, <<a[1], a[2]>> >>, << >>)
        /\ Called("quad", a, "", TRUE)
        /\ UNCHANGED notDocument

polygon ==
    \E a \in PolygonArgs :
        /\ document' = add_polygon(ClosePath(a[1], a[3]), a[2])
        /\ Called("polygon", a, "", TRUE)
        /\ UNCHANGED notDocument

point ==
    \E a \in PointArgs :
        /\ document' = point_doc(a[1], a[2])
        /\ Called("point", a, "", TRUE)
        /\ UNCHANGED notDocument

sketch ==
    \E sub_sketch \in SketchArgs :
        /\ document' = sketch_doc(sub_sketch)
        /\ Called("sketch", << >>, sub_sketch, TRUE)
        /\ UNCHANGED notDocument

DrawOps == {"line", "rect", "square", "quad", "polygon", "point", "sketch"}

\* the calls that go through _add_polygon
PrimitiveOps == {"line", "rect", "square", "quad", "polygon"}

(***************************************************************************)
(* shape.py.  The area of a Shape (Shape._polygon, a shapely geometry) is  *)
(* the set of unit cells <<i, j>> = [i, i+1] x [j, j+1] it covers; closed  *)
(* paths are axis-aligned rectangles on the integer grid, for which        *)
(* shapely's boolean operations are exactly the set operations on cells.   *)
(* A polygon of a MultiPolygon is a maximal edge-connected set of cells.   *)
(***************************************************************************)
\* the cells enclosed by a closed rectangular path
CellsOf(path) ==
    LET b == Bounds(path)
    IN  {<<i, j>> : i \in b[1]..(b[3] - 1), j \in b[2]..(b[4] - 1)}

\* Polygon(vp.as_vector(exterior), [vp.as_vector(hole) for hole in holes])
PolygonOf(exterior, holes) ==
    CellsOf(exterior) \ UNION {CellsOf(holes[i]) : i \in 1..Len(holes)}

Adjacent(c, d) == Abs(c[1] - d[1]) + Abs(c[2] - d[2]) = 1

RECURSIVE Grow(_, _)
Grow(comp, area) ==
    LET next == comp \cup {c \in area : \E d \in comp : Adjacent(c, d)}
    IN  IF next = comp THEN comp ELSE Grow(next, area)

RECURSIVE Geoms(_)
\* the polygons of an area: [shape] for a Polygon, shape.geoms for a MultiPolygon
Geoms(area) ==
    IF area = {} THEN << >>
    ELSE LET c == CHOOSE c \in area : TRUE
             comp == Grow({c}, area)
         IN  <<comp>> \o Geoms(area \ comp)

ValidOps == {"union", "difference", "intersection", "symmetric_difference"}

BoolOpSwapped(op, A, P) ==
    CASE op = "union" -> A \cup P
      [] op = "difference" -> P \ A
      [] op = "intersection" -> A \cap P
      [] op = "symmetric_difference" -> (A \ P) \cup (P \ A)

\* self._polygon.union(p) / .difference(p) / .intersection(p) / .symmetric_difference(p)
BoolOp(op, A, P) ==
    CASE op = "union" -> A \cup P
      [] op = "difference" -> A \ P
      [] op = "intersection" -> A \cap P
      [] op = "symmetric_difference" -> (A \ P) \cup (P \ A)

\* result of a Shape method: the error raised ("" if none) and the shape afterwards
Result(err, shp) == [err |-> err, shp |-> shp]

OpenLineAnyOp(exterior, holes, op) == Len(holes) > 0

\* the tests of Shape._add_polygon that reject an open line
OpenLineRejected(exterior, holes, op) == Len(holes) > 0 \/ op # "union"

\* Shape._add_polygon(exterior, holes, op) on the shape shp
Shape_add_polygon(shp, exterior, holes, op) ==
    IF exterior[1] # exterior[Len(exterior)]
    THEN IF OpenLineRejected(exterior, holes, op)
         THEN Result("ValueError", shp)
         ELSE Result("", [shp EXCEPT !.lines = Append(@, exterior)])
    ELSE IF op \in ValidOps
         THEN Result("", [shp EXCEPT !.polygon = BoolOp(op, @, PolygonOf(exterior, holes))])
         ELSE Result("ValueError", shp)

\* Shape.point(x, y)
Shape_point(shp, x, y) == [shp EXCEPT !.points = Append(@, <<x, y>>)]

RECURSIVE GeometryLoop(_, _, _)
\* the loop `for p in poly_list: self.polygon(p.exterior.coords, holes, op=op)`
\* of Shape.geometry; every p is closed, so _add_polygon takes its second
\* branch with Polygon(exterior, holes) = p, and the first error ends the loop
GeometryLoop(shp, poly_list, op) ==
    IF poly_list = << >> THEN Result("", shp)
    ELSE IF op \in ValidOps
         THEN GeometryLoop([shp EXCEPT !.polygon = BoolOp(op, @, poly_list[1])],
                           Tail(poly_list), op)
         ELSE Result("ValueError", shp)

\* Shape.geometry(shape, op) for shape the area of a Shape
Shape_geometry(shp, area, op) ==
    IF area = {} THEN Result("", shp)
    ELSE GeometryLoop(shp, Geoms(area), op)

Shape_shape_any_op(shp, other, op) ==
    LET r == Shape_geometry(shp, other.polygon, op)
    IN  IF r.err # "" THEN r
        ELSE Result("", [r.shp EXCEPT !.lines = @ \o other.lines,
                                      !.points = @ \o other.points])

\* Shape.shape(shape, op) on the shape shp, other being the value of `shape`
Shape_shape(shp, other, op) ==
    LET r == Shape_geometry(shp, other.polygon, op)
    IN  IF r.err # "" THEN r
        ELSE IF op = "union"
             THEN Result("", [r.shp EXCEPT !.lines = @ \o other.lines,
                                           !.points = @ \o other.points])
             ELSE r

(***************************************************************************)
(* Shape._compile.  The lines of a Shape are straight diagonal lines       *)
(* between points of the integer grid: each unit step of such a line runs  *)
(* through the inside of one cell, so that line.difference(area) keeps     *)
(* exactly the steps whose cell is not in the area.                        *)
(***************************************************************************)
Sign(n) == IF n > 0 THEN 1 ELSE IF n < 0 THEN -1 ELSE 0

\* the grid point reached after k unit steps along a 2-point line
StepPoint(ln, k) ==
    << ln[1][1] + k * Sign(ln[2][1] - ln[1][1]), ln[1][2] + k * Sign(ln[2][2] - ln[1][2]) >>

\* number of unit steps of a 2-point line
StepCount(ln) == Max(Abs(ln[2][1] - ln[1][1]), Abs(ln[2][2] - ln[1][2]))

\* the cell the k-th unit step (k = 1..StepCount) of a line runs through
StepCell(ln, k) ==
    << Min(StepPoint(ln, k - 1)[1], StepPoint(ln, k)[1]),
       Min(StepPoint(ln, k - 1)[2], StepPoint(ln, k)[2]) >>

RECURSIVE DifferenceFrom(_, _, _, _)
\* line.difference(area), scanning the steps from step k on; start is the step
\* at which the piece being built began (0 when no piece is open)
DifferenceFrom(ln, area, k, start) ==
    IF k > StepCount(ln)
    THEN (IF start = 0 THEN << >>
          ELSE << <<StepPoint(ln, start - 1), StepPoint(ln, k - 1)>> >>)
    ELSE IF StepCell(ln, k) \in area
         THEN (IF start = 0 THEN << >>
               ELSE << <<StepPoint(ln, start - 1), StepPoint(ln, k - 1)>> >>)
              \o DifferenceFrom(ln, area, k + 1, 0)
         ELSE DifferenceFrom(ln, area, k + 1, IF start = 0 THEN k ELSE start)

\* line.difference(area): the pieces of the line outside the area, in order
LineDifference(ln, area) == DifferenceFrom(ln, area, 1, 0)

RECURSIVE UnaryUnion(_, _)
\* unary_union of a list of lists of pieces: every piece once.  (Pieces of
\* the model either coincide or do not meet, so there is nothing to node.)
UnaryUnion(pieces, done) ==
    IF pieces = << >> THEN done
    ELSE UnaryUnion(Tail(pieces),
                    IF \E i \in 1..Len(done) : done[i] = Head(pieces)
                    THEN done ELSE Append(done, Head(pieces)))

RECURSIVE Flatten(_)
Flatten(ss) == IF ss = << >> THEN << >> ELSE Head(ss) \o Flatten(Tail(ss))

\* point.intersects(area) for a grid point: it lies in a cell of the area or
\* on the boundary of one
PointIntersects(pt, area) ==
    \E c \in area : pt[1] - c[1] \in {0, 1} /\ pt[2] - c[2] \in {0, 1}

\* what Shape._compile returns, and the shape afterwards
Compiled(shp, area, lines, points) ==
    [shp |-> shp, area |-> area, lines |-> lines, points |-> points]

Shape_compile_in_place(shp, mask_lines, mask_points) ==
    LET lines == IF mask_lines
                 THEN UnaryUnion(Flatten([i \in 1..Len(shp.lines) |->
                                             LineDifference(shp.lines[i], shp.polygon)]), << >>)
                 ELSE shp.lines
        points == SelectSeq(shp.points,
                            LAMBDA pt : ~mask_points \/ ~PointIntersects(pt, shp.polygon))
    IN  Compiled([shp EXCEPT !.lines = lines, !.points = points], shp.polygon, lines, points)

Shape_compile_swapped(shp, mask_lines, mask_points) ==
    LET lines == IF mask_points
                 THEN UnaryUnion(Flatten([i \in 1..Len(shp.lines) |->
                                             LineDifference(shp.lines[i], shp.polygon)]), << >>)
                 ELSE shp.lines
        points == SelectSeq(shp.points,
                            LAMBDA pt : ~mask_lines \/ ~PointIntersects(pt, shp.polygon))
    IN  Compiled(shp, shp.polygon, lines, points)

\* Shape._compile(mask_lines, mask_points) on the shape shp.  The area is a
\* Polygon or a MultiPolygon in this model, so the RuntimeError branches are
\* not taken.
Shape_compile(shp, mask_lines, mask_points) ==
    LET area == shp.polygon
        lines == IF mask_lines
                 THEN UnaryUnion(Flatten([i \in 1..Len(shp.lines) |->
                                             LineDifference(shp.lines[i], area)]), << >>)
                 ELSE shp.lines
        points == SelectSeq(shp.points,
                            LAMBDA pt : ~mask_points \/ ~PointIntersects(pt, area))
    IN  Compiled(shp, area, lines, points)

(***************************************************************************)
(* Calls on the two Shape objects "a" and "b" of the script                *)
(***************************************************************************)
OpArgs == ValidOps \cup {"xor"}

ShapeLeft == RectPath(0, 0, 1, 3)

ShapeRight == RectPath(2, 0, 1, 3)

ShapeFull == RectPath(0, 0, 3, 3)

ShapeHole == RectPath(1, 1, 1, 1)

ShapeOpen == << <<0, 0>>, <<3, 3>> >>

\* <<shape, points, holes, op>> of the Shape.polygon calls
ShapePolygonArgs ==
    ({"a"} \X { <<ShapeLeft, << >> >>, <<ShapeRight, << >> >>,
                <<ShapeFull, << >> >>, <<ShapeFull, <<ShapeHole>> >>,
                <<ShapeOpen, << >> >>, <<ShapeOpen, <<ShapeHole>> >> } \X OpArgs)
    \cup ({"b"} \X { <<ShapeRight, << >> >>, <<ShapeFull, << >> >>,
                     <<ShapeOpen, << >> >> } \X OpArgs)

\* <<shape, other shape, op>> of the Shape.shape calls
ShapeShapeArgs == { <<"a", "b">>, <<"b", "a">>, <<"a", "a">> } \X OpArgs

ShapePointArgs == { <<"a", 1, 1>>, <<"a", 3, 3>> }

\* <<shape, <<x, y, w, h>>, op>> of the Shape.rect calls
ShapeRectArgs ==
    { <<"a", <<1, 1, 1, 1>>, "union">>, <<"a", <<0, 0, 1, 1>>, "union">>,
      <<"a", <<1, 1, 1, 1>>, "difference">> }

\* <<shape, x1, y1, x2, y2>> of the Shape.line calls
ShapeLineArgs == { <<"a", 0, 0, 3, 3>>, <<"a", 0, 1, 2, 3>> }

\* <<shape, mask_lines, mask_points>> of the Shape._compile calls
CompileArgs == {"a"} \X BOOLEAN \X BOOLEAN

notShapes == <<transform_stack, styleVars, document, sub_document, withs, saved>>

\* s.polygon(points, holes=holes, op=op), points given as a sequence of pairs
ShapePolygon ==
    \E a \in ShapePolygonArgs :
        LET s == a[1]
            r == Shape_add_polygon(shapes[s], a[2][1], a[2][2], a[3])
        IN  /\ shapes' = [shapes EXCEPT ![s] = r.shp]
            /\ Called("Shape.polygon", <<s, a[2][1], a[2][2]>>, a[3], r.err = "")
            /\ UNCHANGED notShapes

ShapePoint ==
    \E a \in ShapePointArgs :
        /\ shapes' = [shapes EXCEPT ![a[1]] = Shape_point(@, a[2], a[3])]
        /\ Called("Shape.point", a, "", TRUE)
        /\ UNCHANGED notShapes

\* s.rect(x, y, w, h, op=op) in the default "corner" mode, without corner radii
ShapeRect ==
    \E a \in ShapeRectArgs :
        LET s == a[1]
            r == Shape_add_polygon(shapes[s], RectPath(a[2][1], a[2][2], a[2][3], a[2][4]),
                                   << >>, a[3])
        IN  /\ shapes' = [shapes EXCEPT ![s] = r.shp]
            /\ Called("Shape.rect", <<s>> \o a[2], a[3], r.err = "")
            /\ UNCHANGED notShapes

\* s.line(x1, y1, x2, y2)
ShapeLine ==
    \E a \in ShapeLineArgs :
        LET s == a[1]
            r == Shape_add_polygon(shapes[s], << <<a[2], a[3]>>, <<a[4], a[5]>> >>,
                                   << >>, "union")
        IN  /\ shapes' = [shapes EXCEPT ![s] = r.shp]
            /\ Called("Shape.line", a, "", r.err = "")
            /\ UNCHANGED notShapes

\* s._compile(mask_lines, mask_points)
ShapeCompile ==
    \E a \in CompileArgs :
        LET s == a[1]
            r == Shape_compile(shapes[s], a[2], a[3])
        IN  /\ shapes' = [shapes EXCEPT ![s] = r.shp]
            /\ CalledReturning("Shape._compile", a, "", TRUE,
                               [area |-> r.area, lines |-> r.lines, points |-> r.points])
            /\ UNCHANGED notShapes

\* s.shape(other, op)
ShapeShape ==
    \E a \in ShapeShapeArgs :
        LET s == a[1][1]
            r == Shape_shape(shapes[s], shapes[a[1][2]], a[2])
        IN  /\ shapes' = [shapes EXCEPT ![s] = r.shp]
            /\ Called("Shape.shape", a[1], a[2], r.err = "")
            /\ UNCHANGED notShapes

(***************************************************************************)
(* Param (sketch_class.py).  A Python value is a record: t is the name of  *)
(* its type, n its number (an int as itself, a float in tenths, a bool as  *)
(* 0 or 1) and s its text.                                                 *)
(***************************************************************************)
Py(t, n, s) == [t |-> t, n |-> n, s |-> s]

PyInt(n) == Py("int", n, "")

\* a float, given in tenths
PyFloat(tenths) == Py("float", tenths, "")

PyStr(s) == Py("str", 0, s)

PyBool(b) == Py("bool", IF b THEN 1 ELSE 0, "")

PyNone == Py("NoneType", 0, "")

\* the list [1]
PyList == Py("list", 1, "")

\* the outcome of a conversion: the exception raised ("" if none) and the value
Converted(exc, val) == [exc |-> exc, val |-> val]

\* int(text) for the texts of the inputs: None where it raises ValueError
IntLiteral(s) == CASE s = "7" -> Some(7) [] s = "-3" -> Some(-3) [] OTHER -> None

\* float(text), in tenths
FloatLiteral(s) ==
    CASE s = "7" -> Some(70) [] s = "-3" -> Some(-30) [] s = "2.5" -> Some(25)
      [] s = "0" -> Some(0) [] s = "1" -> Some(10) [] s = "2" -> Some(20)
      [] s = "3" -> Some(30) [] s = "-1" -> Some(-10) [] s = "0.5" -> Some(5)
      [] OTHER -> None

\* str.lower()
Lower(s) == CASE s = "Yes" -> "yes" [] s = "TRUE" -> "true" [] OTHER -> s

\* int() of a float: the fraction is dropped
Trunc(tenths) == IF tenths >= 0 THEN tenths \div 10 ELSE -((-tenths) \div 10)

\* int(v)
IntOf(v) ==
    CASE v.t \in {"int", "bool"} -> Converted("", PyInt(v.n))
      [] v.t = "float" -> Converted("", PyInt(Trunc(v.n)))
      [] v.t = "str" -> IF IntLiteral(v.s) = None THEN Converted("ValueError", v)
                        ELSE Converted("", PyInt(IntLiteral(v.s)[1]))
      [] OTHER -> Converted("TypeError", v)

\* float(v)
FloatOf(v) ==
    CASE v.t \in {"int", "bool"} -> Converted("", PyFloat(10 * v.n))
      [] v.t = "float" -> Converted("", v)
      [] v.t = "str" -> IF FloatLiteral(v.s) = None THEN Converted("ValueError", v)
                        ELSE Converted("", PyFloat(FloatLiteral(v.s)[1]))
      [] OTHER -> Converted("TypeError", v)

\* str(v)
StrOf(v) ==
    CASE v.t = "str" -> Converted("", v)
      [] v.t = "int" -> Converted("", PyStr(CASE v.n = 7 -> "7" [] v.n = 0 -> "0"
                                              [] v.n = -3 -> "-3" [] OTHER -> "20"))
      [] v.t = "float" -> Converted("", PyStr(CASE v.n = 25 -> "2.5" [] OTHER -> "-10.0"))
      [] v.t = "bool" -> Converted("", PyStr(IF v.n = 1 THEN "True" ELSE "False"))
      [] v.t = "NoneType" -> Converted("", PyStr("None"))
      [] OTHER -> Converted("", PyStr("[1]"))

\* bool(v)
BoolOf(v) ==
    CASE v.t = "str" -> Converted("", PyBool(v.s # ""))
      [] v.t = "NoneType" -> Converted("", PyBool(FALSE))
      [] OTHER -> Converted("", PyBool(v.n # 0))

\* self.type(v), after `if self.type is bool and isinstance(v, str)`
Convert(type, v) ==
    CASE type = "int" -> IntOf(v)
      [] type = "float" -> FloatOf(v)
      [] type = "str" -> StrOf(v)
      [] OTHER -> IF v.t = "str"
                  THEN BoolOf(PyBool(Lower(v.s) \in {"true", "1", "yes", "y"}))
                  ELSE BoolOf(v)

\* Param(value, min_value, max_value, choices=choices): min, max and choices
\* are None or Some(...)
Param(value, min_value, max_value, choices) ==
    [value |-> value, type |-> value.t, min |-> min_value, max |-> max_value,
     choices |-> choices]

\* max(a, b) and min(a, b) of Python: a unless b is greater (smaller)
PyMax(a, b) == IF b.n > a.n THEN b ELSE a

PyMin(a, b) == IF b.n < a.n THEN b ELSE a

\* the bounds applied only where they are truthy
ClampTruthy(param, value) ==
    LET lo == IF param.min # None /\ param.min[1].n # 0
              THEN PyMax(param.min[1], value) ELSE value
    IN  IF param.max # None /\ param.max[1].n # 0 THEN PyMin(param.max[1], lo) ELSE lo

\* `if self.min is not None: value = max(self.min, value)`, then the same for max
Clamp(param, value) ==
    LET lo == IF param.min # None THEN PyMax(param.min[1], value) ELSE value
    IN  IF param.max # None THEN PyMin(param.max[1], lo) ELSE lo

\* `self.choices and value not in self.choices`
NotAChoice(param, value) ==
    /\ param.choices # None
    /\ param.choices[1] # << >>
    /\ \A i \in 1..Len(param.choices[1]) :
          ~(param.choices[1][i].n = value.n /\ param.choices[1][i].s = value.s)

\* Param.set_value_with_validation(v): the exception that leaves it ("" if
\* none), the value returned and the Param afterwards
Param_set_value_with_validation(param, v) ==
    LET c == Convert(param.type, v)
    IN  IF c.exc = "ValueError" THEN [exc |-> "", ret |-> FALSE, param |-> param]
        ELSE IF c.exc # "" THEN [exc |-> c.exc, ret |-> FALSE, param |-> param]
        ELSE IF NotAChoice(param, c.val) THEN [exc |-> "", ret |-> FALSE, param |-> param]
        ELSE [exc |-> "", ret |-> TRUE,
              param |-> [param EXCEPT !.value = Clamp(param, c.val)]]

\* the Param attributes of the sketch class of the script
ClassParams ==
    [count |-> Param(PyInt(5), Some(PyInt(0)), Some(PyInt(10)), None),
     offset |-> Param(PyFloat(-20), Some(PyFloat(-50)), Some(PyFloat(0)), None),
     low |-> Param(PyInt(10), Some(PyInt(0)), None, None),
     mode |-> Param(PyStr("simple"), None, None, Some(<<PyStr("simple"), PyStr("complex")>>)),
     pick |-> Param(PyInt(2), None, None, Some(<<PyInt(2), PyInt(7)>>)),
     flag |-> Param(PyBool(FALSE), None, None, None)]

\* the attributes of the sketch class that are not Params
OtherAttributes == {"draw", "finalize"}

RECURSIVE ParamSetLoop(_, _)
\* for name, value in param_set.items(): ... set_value_with_validation(value);
\* an exception ends the loop
ParamSetLoop(items, prms) ==
    IF items = << >> THEN [exc |-> "", params |-> prms]
    ELSE LET name == Head(items)[1]
             value == Head(items)[2]
         IN  IF name \in DOMAIN prms
             THEN LET r == Param_set_value_with_validation(prms[name], value)
                  IN  IF r.exc # "" THEN [exc |-> r.exc, params |-> prms]
                      ELSE ParamSetLoop(Tail(items), [prms EXCEPT ![name] = r.param])
             ELSE ParamSetLoop(Tail(items), prms)

\* the values handed to set_value_with_validation
ParamInputs ==
    { PyInt(7), PyInt(-3), PyInt(20), PyFloat(25), PyFloat(-100), PyStr("7"),
      PyStr("abc"), PyStr("complex"), PyStr("Yes"), PyBool(TRUE), PyNone, PyList }

\* the dicts handed to set_param_set, as their items in order
ParamSets ==
    { << <<"count", PyInt(20)>>, <<"mode", PyStr("complex")>> >>,
      << <<"count", PyNone>>, <<"mode", PyStr("complex")>> >>,
      << <<"unknown", PyInt(7)>>, <<"draw", PyInt(7)>>, <<"flag", PyStr("Yes")>> >>,
      << <<"mode", PyStr("bogus")>>, <<"low", PyInt(-3)>> >> }

set_value_with_validation ==
    \E name \in DOMAIN ClassParams, v \in ParamInputs :
        LET r == Param_set_value_with_validation(params[name], v)
        IN  /\ params' = [params EXCEPT ![name] = r.param]
            /\ CallStep("set_value_with_validation", <<name, v>>, r.exc, r.exc = "",
                        IF r.exc = "" THEN Some(r.ret) ELSE None)
            /\ UNCHANGED notParams

set_param_set ==
    \E param_set \in ParamSets :
        LET r == ParamSetLoop(param_set, params)
        IN  /\ params' = r.params
            /\ CallStep("set_param_set", param_set, r.exc, r.exc = "", None)
            /\ UNCHANGED notParams

(***************************************************************************)
(* Random numbers.  A generator (random.Random, numpy's global generator)  *)
(* is a state that each draw advances; the state space is a small ring     *)
(* walked in full by Advance.  A Vsketch holds its seed, its generator and *)
(* the Gaussian value the generator keeps for its next call; the process   *)
(* holds the generator of the `random` module and that of numpy.           *)
(***************************************************************************)
RandomStates == 16

\* the generator after one draw
Advance(state) == (5 * state + 3) % RandomStates

\* the generator after seed(s)
SeedState(s) == (7 * s + 1) % RandomStates

\* random.randint(0, 2**31) drawn at the generator state `state`
RandInt(state) == 100 + state

\* Random.seed(s): the generator is set from s and the kept Gaussian is dropped
Random_seed(s) == [state |-> SeedState(s), gauss_next |-> None]

\* seed(s) that keeps the Gaussian of the previous sequence
Random_seed_keep_gauss(gen, s) == [state |-> SeedState(s), gauss_next |-> gen.gauss_next]

\* Random.uniform(lo, hi): a + (b - a) * random()
Random_uniform(gen, lo, hi) ==
    [value |-> <<"uniform", lo, hi, gen.state>>,
     gen |-> [gen EXCEPT !.state = Advance(@)]]

\* Random.gauss(0.0, 1.0): the kept value if there is one, else two draws give
\* a pair of values, of which the second is kept
Random_gauss(gen) ==
    IF gen.gauss_next # None
    THEN [value |-> gen.gauss_next[1], gen |-> [gen EXCEPT !.gauss_next = None]]
    ELSE [value |-> <<"gauss", "cos", gen.state, Advance(gen.state)>>,
          gen |-> [state |-> Advance(Advance(gen.state)),
                   gauss_next |-> Some(<<"gauss", "sin", gen.state, Advance(gen.state)>>)]]

SetRandomSeedKeepGauss(v, seed) ==
    [v EXCEPT !.random_seed = seed, !.random = Random_seed_keep_gauss(v.random, seed)]

\* the random_seed setter: self._random_seed = seed; self._random.seed(seed)
SetRandomSeed(v, seed) == [v EXCEPT !.random_seed = seed, !.random = Random_seed(seed)]

\* Vsketch.randomSeed(seed)
randomSeedOf(v, seed) == SetRandomSeed(v, seed)

\* a Vsketch built without touching the generators of the process
NewVsketchOwnEntropy(process) ==
    [vsk |-> [random_seed |-> 200, random |-> Random_seed(200), perlin |-> <<"own", 0>>],
     process |-> process]

\* Vsketch.__init__, as far as random numbers go: the seed is drawn from the
\* generator of the `random` module, and Noise() fills its table from numpy's
\* global generator.  Gives the Vsketch and the process afterwards.
NewVsketch(process) ==
    [vsk |-> [random_seed |-> RandInt(process.random),
              random |-> Random_seed(RandInt(process.random)),
              perlin |-> <<"numpy", process.numpy>>],
     process |-> [random |-> Advance(process.random), numpy |-> Advance(process.numpy)]]

\* the process as it starts, then the two Vsketch objects of the script built
\* one after the other
ProcessStart ==
    LET p0 == [random |-> 0, numpy |-> 0]
        a == NewVsketch(p0)
        b == NewVsketch(a.process)
    IN  [vsk |-> a.vsk, sub |-> b.vsk, process |-> b.process,
         calls |-> [w \in {"vsk", "sub"} |-> << >>]]

\* the seeds given to randomSeed
SeedArgs == {0, 1, 42}

\* <<a, b>> of random(a, b); b is None when left out
RandomArgs == { <<10, None>>, <<30, Some(40)>> }

Sketches == {"vsk", "sub"}

randomSeed ==
    \E w \in Sketches, seed \in SeedArgs :
        /\ rng' = [rng EXCEPT ![w] = randomSeedOf(@, seed), !.calls[w] = << >>]
        /\ CallStep("randomSeed", <<w, seed>>, "", TRUE, None)
        /\ UNCHANGED notRandom

\* random(a, b): self._random.uniform(0 if b is None else a, a if b is None else b)
random ==
    \E w \in Sketches, a \in RandomArgs :
        LET lo == IF a[2] = None THEN 0 ELSE a[1]
            hi == IF a[2] = None THEN a[1] ELSE a[2][1]
            r == Random_uniform(rng[w].random, lo, hi)
        IN  /\ rng' = [rng EXCEPT ![w].random = r.gen,
                                  !.calls[w] = Append(@, <<"random", a>>)]
            /\ CallStep("random", <<w, a>>, "", TRUE, Some(r.value))
            /\ UNCHANGED notRandom

randomGaussian ==
    \E w \in Sketches :
        LET r == Random_gauss(rng[w].random)
        IN  /\ rng' = [rng EXCEPT ![w].random = r.gen,
                                  !.calls[w] = Append(@, <<"randomGaussian", << >> >>)]
            /\ CallStep("randomGaussian", <<w, << >> >>, "", TRUE, Some(r.value))
            /\ UNCHANGED notRandom

\* the script builds its second Vsketch anew
Vsketch_init ==
    LET n == NewVsketch(rng.process)
    IN  /\ rng' = [rng EXCEPT !.sub = n.vsk, !.process = n.process, !.calls["sub"] = << >>]
        /\ sub_document' = EmptyDoc
        /\ CallStep("Vsketch", <<"sub", << >> >>, "", TRUE, None)
        /\ UNCHANGED <<transform_stack, styleVars, document, shapes, withs, saved, params,
                       _detail, sketch_obj, viewer, param_spec>>

(***************************************************************************)
(* Bezier curves (curves.py).  Coordinates, lengths and the detail are     *)
(* integers; a curve parameter t in [0, 1] is an integer in 0..BezierT.    *)
(* Divisions round to the nearest integer, except where the code takes a   *)
(* ceiling.                                                                *)
(***************************************************************************)
BezierT == 100

\* a / b to the nearest integer, for a >= 0 and b > 0
RoundDiv(a, b) == (2 * a + b) \div (2 * b)

\* the integer part of the square root
ISqrt(v) == CHOOSE r \in 0..4000 : r * r <= v /\ (r + 1) * (r + 1) > v

\* math.hypot
Hypot(dx, dy) == ISqrt(dx * dx + dy * dy)

\* np.linspace(0, 1, n)[i], i from 0
Linspace01(i, n) == RoundDiv(BezierT * i, n - 1)

\* _cubic_bezier at the position t: the point of the curve of control points P
cubic_bezier(P, t) ==
    LET n_pos == BezierT - t
        n_pos_3 == n_pos * n_pos * n_pos
        n_pos_2_pos == n_pos * n_pos * t
        pos_2_n_pos == t * t * n_pos
        pos_3 == t * t * t
        at(k) == RoundDiv(n_pos_3 * P[1][k] + 3 * (n_pos_2_pos * P[2][k] + pos_2_n_pos * P[3][k])
                              + pos_3 * P[4][k],
                          BezierT * BezierT * BezierT)
    IN  <<at(1), at(2)>>

\* np.hypot(np.diff(x), np.diff(y))[i]
SegmentLength(pts, i) == Hypot(pts[i + 1][1] - pts[i][1], pts[i + 1][2] - pts[i][2])

RECURSIVE CumSum(_, _)
\* np.cumsum(np.hstack([0, np.hypot(np.diff(x), np.diff(y))])), up to index k
CumSum(pts, k) ==
    IF k = 1 THEN <<0>>
    ELSE LET before == CumSum(pts, k - 1)
         IN  Append(before, before[k - 1] + SegmentLength(pts, k - 1))

\* np.interp(a, xp, fp)
Interp(a, xp, fp) ==
    IF a >= xp[Len(xp)] THEN fp[Len(fp)]
    ELSE IF a <= xp[1] THEN fp[1]
    ELSE LET i == CHOOSE k \in 1..(Len(xp) - 1) : xp[k] <= a /\ a < xp[k + 1]
         IN  fp[i] + RoundDiv((fp[i + 1] - fp[i]) * (a - xp[i]), xp[i + 1] - xp[i])

\* max(3, math.ceil(1.15 * length / detail))
FinalCount(length, tolerance) == Max(3, CeilDiv(115 * length, 100 * tolerance))

\* _cubic_bezier_interpolate, and cubic_bezier_path that returns its points
cubic_bezier_path(P, tolerance) ==
    LET chord == Hypot(P[4][1] - P[1][1], P[4][2] - P[1][2])
        cont_net == Hypot(P[2][1] - P[1][1], P[2][2] - P[1][2])
                    + Hypot(P[3][1] - P[2][1], P[3][2] - P[2][2])
                    + Hypot(P[4][1] - P[3][1], P[4][2] - P[3][2])
        \* math.ceil(length_estimate / detail / 10), length_estimate the half sum
        n1 == Max(3, CeilDiv(chord + cont_net, 20 * tolerance))
        pts1 == [i \in 1..n1 |-> cubic_bezier(P, Linspace01(i - 1, n1))]
        length == CumSum(pts1, n1)[n1]
        n2 == Max(3, CeilDiv(length, 5 * tolerance))
        s == [i \in 1..n2 |-> Linspace01(i - 1, n2)]
        pts2 == [i \in 1..n2 |-> cubic_bezier(P, s[i])]
        curv_absc == CumSum(pts2, n2)
        n3 == FinalCount(length, tolerance)
        new_s == [j \in 1..n3 |-> Interp(RoundDiv(curv_absc[n2] * (j - 1), n3 - 1), curv_absc, s)]
    IN  [j \in 1..n3 |-> cubic_bezier(P, new_s[j])]

\* Vsketch.epsilon: the detail over the longer of the two transformed base
\* vectors
epsilon ==
    LET t == Transform(transform_stack)
        scaling == Max(Hypot(t[1][1], t[2][1]), Hypot(t[1][2], t[2][2]))
    IN  _detail \div scaling

\* the control points handed to bezier: short and long straight curves, an
\* arch, a curve that starts at rest, four coincident points
BezierArgs ==
    { << <<0, 0>>, <<80, 0>>, <<160, 0>>, <<240, 0>> >>,
      << <<0, 0>>, <<180, 0>>, <<360, 0>>, <<540, 0>> >>,
      << <<0, 0>>, <<0, 200>>, <<200, 200>>, <<200, 0>> >>,
      << <<0, 0>>, <<0, 0>>, <<0, 0>>, <<500, 0>> >>,
      << <<50, 50>>, <<50, 50>>, <<50, 50>>, <<50, 50>> >> }

DetailArgs == {100, 200}

\* Vsketch.detail(epsilon)
detail ==
    \E e \in DetailArgs :
        /\ _detail' = e
        /\ CallStep("detail", <<e>>, "", TRUE, None)
        /\ UNCHANGED <<drawVars, params, rng, sketch_obj, viewer, param_spec>>

\* Vsketch.bezier(x1, y1, ..., x4, y4)
bezier ==
    \E P \in BezierArgs :
        /\ document' = add_polygon(cubic_bezier_path(P, epsilon), << >>)
        /\ Called("bezier", P, "", TRUE)
        /\ UNCHANGED notDocument

(***************************************************************************)
(* SketchClass (sketch_class.py).  A sketch object owns a Vsketch of its   *)
(* own; of that Vsketch the record keeps the document, the page size and   *)
(* the centered flag.  runs counts the calls of the finalize hook and      *)
(* moves lists the arguments of the calls of document.translate.           *)
(***************************************************************************)
\* the page size that the draw hooks set with vsk.size
SketchPageSize == <<100, 60>>

\* the sketch subclasses: what draw and finalize draw (lines, as two points
\* each) and the center argument of vsk.size
SketchClasses ==
    [ plain |-> [centered |-> TRUE,
                 draw |-> << << <<0, 1>>, <<20, 11>> >> >>,
                 finalize |-> << >>],
      framed |-> [centered |-> TRUE,
                  draw |-> << << <<0, 1>>, <<20, 11>> >> >>,
                  finalize |-> << << <<0, 5>>, <<60, 35>> >> >>],
      loose |-> [centered |-> FALSE,
                 draw |-> << << <<0, 1>>, <<20, 11>> >> >>,
                 finalize |-> << << <<0, 5>>, <<60, 35>> >> >>],
      blank |-> [centered |-> TRUE, draw |-> << >>, finalize |-> << >>] ]

RECURSIVE DrawLines(_, _)
\* vsk.line for each of the lines, on a Vsketch in its initial style
DrawLines(doc, lines) ==
    IF lines = << >> THEN doc
    ELSE DrawLines(DocAdd(doc, <<PathLine(lines[1])>>, 1), Tail(lines))

\* the coordinates (k = 1 for x, 2 for y) of all the points of a document
DocCoords(doc, k) ==
    { doc[l][i].pts[j][k] : <<l, i, j>> \in
        { c \in (DOMAIN doc) \X (1..8) \X (1..8) :
            c[2] <= Len(doc[c[1]]) /\ c[3] <= Len(doc[c[1]][c[2]].pts) } }

\* Document.bounds(): None for a document without points
DocBounds(doc) ==
    IF DocCoords(doc, 1) = {} THEN None
    ELSE <<MinOf(DocCoords(doc, 1)), MinOf(DocCoords(doc, 2)),
           MaxOf(DocCoords(doc, 1)), MaxOf(DocCoords(doc, 2))>>

\* Document.translate(dx, dy)
DocTranslate(doc, dx, dy) ==
    [l \in DOMAIN doc |->
        [i \in 1..Len(doc[l]) |->
            [doc[l][i] EXCEPT !.pts = [j \in 1..Len(@) |-> <<@[j][1] + dx, @[j][2] + dy>>]]]]

\* the arguments of the translation that centres the bounds on the page
CenterOffset(bounds, page_size) ==
    << (page_size[1] - (bounds[3] - bounds[1])) \div 2 - bounds[1],
       (page_size[2] - (bounds[4] - bounds[2])) \div 2 - bounds[2] >>

\* the block `if vsk.centered and vsk.document.page_size is not None: ...`
CenterOnPage(sk) ==
    IF sk.centered /\ sk.page_size # None /\ DocBounds(sk.doc) # None
    THEN LET by == CenterOffset(DocBounds(sk.doc), sk.page_size[1])
         IN  [sk EXCEPT !.doc = DocTranslate(@, by[1], by[2]), !.moves = Append(@, by)]
    ELSE sk

\* self.finalize(self._vsk)
RunFinalize(sk) ==
    [sk EXCEPT !.doc = DrawLines(@, SketchClasses[sk.cls].finalize), !.runs = @ + 1]

\* ensure_finalized without the test of _finalized
EnsureFinalizedAgain(sk) == [CenterOnPage(RunFinalize(sk)) EXCEPT !.finalized = TRUE]

\* SketchClass.ensure_finalized on the sketch sk: the sketch afterwards
EnsureFinalized(sk) ==
    IF sk.finalized THEN sk
    ELSE [CenterOnPage(RunFinalize(sk)) EXCEPT !.finalized = TRUE]

\* cls(): SketchClass.__init__ with a new Vsketch
NewSketch(cls) ==
    [cls |-> cls, finalized |-> FALSE, runs |-> 0, moves |-> << >>,
     centered |-> TRUE, page_size |-> Some(SketchPageSize), doc |-> EmptyDoc]

\* execute_draw: the draw hook calls vsk.size and draws its lines
ExecuteDraw(sk) ==
    [sk EXCEPT !.centered = SketchClasses[sk.cls].centered,
               !.doc = DrawLines(@, SketchClasses[sk.cls].draw)]

\* the part of execute after execute_draw
ExecuteFinish(sk, finalize) == CenterOnPage(IF finalize THEN EnsureFinalized(sk) ELSE sk)

\* the generators of the process after `cls()` and the seeding of execute
ExecuteProcess(process, seed) ==
    IF seed = None THEN NewVsketch(process).process
    ELSE [random |-> SeedState(seed[1]), numpy |-> SeedState(seed[1])]

ExecuteArgs == (DOMAIN SketchClasses) \X {None, Some(1)} \X BOOLEAN

\* SketchClass.execute(seed, finalize) of the class cls
execute ==
    \E a \in ExecuteArgs :
        /\ sketch_obj' = Some(ExecuteFinish(ExecuteDraw(NewSketch(a[1])), a[3]))
        /\ rng' = [rng EXCEPT !.process = ExecuteProcess(@, a[2])]
        /\ CallStep("execute", a, "", TRUE, None)
        /\ UNCHANGED <<drawVars, params, _detail, viewer, param_spec>>

\* sketch.ensure_finalized() on the sketch that execute returned
ensure_finalized ==
    /\ sketch_obj # None
    /\ sketch_obj' = Some(EnsureFinalized(sketch_obj[1]))
    /\ CallStep("ensure_finalized", << >>, "", TRUE, None)
    /\ UNCHANGED <<drawVars, params, rng, _detail, viewer, param_spec>>

(***************************************************************************)
(* _ParamSpec (vsketch_cli/cli.py): the value of a --param option of       *)
(* `vsk save`.  The text of the value is a sequence of pieces, each one    *)
(* a "," or a ".." or a text without either.  Numbers are floats in        *)
(* tenths.  pc tells where __post_init__ is: not called yet ("idle"), in   *)
(* its while loop ("loop"), or left ("done").                              *)
(***************************************************************************)
NoParamSpec ==
    [pc |-> "idle", value_string |-> << >>, start |-> 0, end |-> 0, stride |-> 0,
     values |-> << >>, error |-> ""]

\* the least float of the model: adding to it leaves it as it is, as -inf
FloatFloor == -MaxFloat

\* a + b in floats
FloatAdd(a, b) == IF a = FloatFloor THEN a ELSE Max(a + b, FloatFloor)

\* `sep in value_string`
Contains(value_string, sep) == \E i \in 1..Len(value_string) : value_string[i] = sep

RECURSIVE SplitAt(_, _, _)
\* value_string.split(sep), for a text that holds no other separator: the
\* pieces between the separators, the empty text where two of them touch
SplitAt(value_string, sep, i) ==
    IF i > Len(value_string) THEN <<"">>
    ELSE IF value_string[i] = sep THEN <<"">> \o SplitAt(value_string, sep, i + 1)
    ELSE LET rest == SplitAt(value_string, sep, i + 1)
         IN  <<value_string[i] \o rest[1]>> \o Tail(rest)

Split(value_string, sep) == SplitAt(value_string, sep, 1)

\* a _ParamSpec left with click.BadParameter
BadParameter(value_string, why) ==
    [NoParamSpec EXCEPT !.pc = "done", !.value_string = value_string, !.error = why]

\* a _ParamSpec left with its values
WithValues(value_string, values) ==
    [NoParamSpec EXCEPT !.pc = "done", !.value_string = value_string, !.values = values]

\* the range branch of __post_init__, up to its while loop
ParamSpecRange(value_string) ==
    LET fields == Split(value_string, "..")
        numbers == [i \in 1..Len(fields) |-> FloatLiteral(fields[i])]
    IN  IF Len(fields) \notin {2, 3}
        THEN BadParameter(value_string, "ranges must have 2 or 3 components")
        ELSE IF \E i \in 1..Len(fields) : numbers[i] = None
        THEN BadParameter(value_string, "ranges must be numbers")
        ELSE IF numbers[2][1] < numbers[1][1]
        THEN BadParameter(value_string, "END cannot be lower than START")
        ELSE [NoParamSpec EXCEPT !.pc = "loop", !.value_string = value_string,
                                 !.start = numbers[1][1], !.end = numbers[2][1],
                                 !.stride = IF Len(fields) = 3 THEN numbers[3][1] ELSE 10]

\* __post_init__ up to its while loop
ParamSpecStart(value_string) ==
    IF Contains(value_string, ",")
    THEN IF Contains(value_string, "..")
         THEN BadParameter(value_string, "ranges cannot be combined with list")
         ELSE WithValues(value_string, Split(value_string, ","))
    ELSE IF Contains(value_string, "..")
    THEN ParamSpecRange(value_string)
    ELSE WithValues(value_string, Split(value_string, ","))

\* one turn of `while start <= end`; of the values only the first
\* MaxValues are kept
ParamSpecLoop(ps) ==
    IF ps.start <= ps.end
    THEN [ps EXCEPT !.values = IF Len(@) < MaxValues THEN Append(@, ps.start) ELSE @,
                    !.start = FloatAdd(@, ps.stride)]
    ELSE [ps EXCEPT !.pc = "done"]

\* the values given to --param
ValueStrings ==
    { <<"5">>, <<"1", ",", "2">>, <<"1", ",", "2", "..", "3">>,
      <<"0", "..", "3">>, <<"0", "..", "3", "..", "2">>, <<"0", "..", "1", "..", "0.5">>,
      <<"2", "..", "2">>, <<"3", "..", "1">>, <<"0", "..", "abc">>, <<"0", "..">>,
      <<"0", "..", "3", "..", "1", "..", "1">>,
      <<"1", "..", "3", "..", "0">>, <<"0", "..", "2", "..", "-1">> }

notParamSpec == <<drawVars, params, rng, _detail, sketch_obj, viewer>>

\* _ParamSpec(name, value_string), up to the while loop of __post_init__
ParamSpec_post_init ==
    \E value_string \in ValueStrings :
        /\ param_spec.pc # "loop"
        /\ param_spec' = ParamSpecStart(value_string)
        /\ CallStep("_ParamSpec", value_string, "", TRUE, None)
        /\ UNCHANGED notParamSpec

\* one turn of the while loop of __post_init__
ParamSpec_loop ==
    /\ param_spec.pc = "loop"
    /\ param_spec' = ParamSpecLoop(param_spec)
    /\ UNCHANGED <<notParamSpec, hist, last, returned, ncalls, harness>>

(***************************************************************************)
(* SketchViewer and SketchRunnerThread (vsketch_cli).  viewer.threads are  *)
(* the runner threads in the order they were started, a thread being known *)
(* by its place in it; thread and sketch are SketchViewer._thread and the  *)
(* run that made SketchViewer._sketch; queue holds the `completed` signals *)
(* emitted by the runner threads and not yet handled by the GUI thread.    *)
(* A runner is at "run" (before execute returns), at "check" (before       *)
(* isInterruptionRequested), at "emit" (before completed.emit) or "done".  *)
(***************************************************************************)
notViewer == <<drawVars, params, rng, _detail, sketch_obj, param_spec>>

\* the runner's own steps are not calls of the script
notCalled == <<hist, last, returned, ncalls, harness>>

\* self._thread.requestInterruption(), when self._thread is not None
RequestInterruption(threads, thread) ==
    IF thread = None THEN threads
    ELSE [threads EXCEPT ![thread[1]].interrupted = TRUE]

\* SketchViewer.redraw_sketch, with a sketch class loaded
redraw_sketch ==
    /\ viewer' = [viewer EXCEPT
                    !.threads = Append(RequestInterruption(@, viewer.thread),
                                       [pc |-> "run", interrupted |-> FALSE]),
                    !.thread = Some(Len(viewer.threads) + 1)]
    /\ CallStep("redraw_sketch", << >>, "", TRUE, None)
    /\ UNCHANGED notViewer

\* SketchRunnerThread.run: sketch = self._sketch_class.execute(...)
run_execute ==
    \E t \in 1..Len(viewer.threads) :
        /\ viewer.threads[t].pc = "run"
        /\ viewer' = [viewer EXCEPT !.threads[t].pc = "check"]
        /\ UNCHANGED <<notViewer, notCalled>>

\* SketchRunnerThread.run: if not self.isInterruptionRequested()
run_check ==
    \E t \in 1..Len(viewer.threads) :
        /\ viewer.threads[t].pc = "check"
        /\ viewer' = [viewer EXCEPT
                        !.threads[t].pc = IF viewer.threads[t].interrupted
                                          THEN "done" ELSE "emit"]
        /\ UNCHANGED <<notViewer, notCalled>>

\* SketchRunnerThread.run: self.completed.emit(sketch), queued for the GUI thread
run_emit ==
    \E t \in 1..Len(viewer.threads) :
        /\ viewer.threads[t].pc = "emit"
        /\ viewer' = [viewer EXCEPT !.threads[t].pc = "done", !.queue = Append(@, t)]
        /\ UNCHANGED <<notViewer, notCalled>>

\* SketchViewer.redraw_sketch_completed(sketch), the slot of the oldest signal
redraw_sketch_completed ==
    /\ viewer.queue # << >>
    /\ viewer' = [viewer EXCEPT !.sketch = Some(Head(viewer.queue)),
                                !.thread = None,
                                !.queue = Tail(@)]
    /\ UNCHANGED <<notViewer, notCalled>>

(***************************************************************************)
(* Initial state: a freshly constructed Vsketch, a second Vsketch that the *)
(* script has drawn into, and two Shape objects not touched yet            *)
(***************************************************************************)
Init(limit, trace, max_weight) ==
    /\ harness = [limit |-> limit, trace |-> trace, max_weight |-> max_weight]
    /\ transform_stack = <<Identity3>>
    /\ cur_stroke = Some(1)
    /\ cur_fill = None
    /\ stroke_weight = 1
    /\ join_style = "round"
    /\ pen_width = [l \in {} |-> 0]
    /\ default_pen_width = DefaultPenWidth
    /\ document = EmptyDoc
    /\ sub_document = SubDocument
    /\ shapes = [s \in {"a", "b"} |-> EmptyShape]
    /\ params = ClassParams
    /\ rng = ProcessStart
    /\ _detail = DefaultDetail
    /\ sketch_obj = None
    /\ viewer = ViewerStart
    /\ param_spec = NoParamSpec
    /\ withs = << >>
    /\ saved = << >>
    /\ hist = << >>
    /\ last = CallRec("__init__", << >>, "", TRUE)
    /\ returned = None
    /\ ncalls = 0

(***************************************************************************)
(* Vsketch.geometry and Vsketch.shape.                                     *)
(* An object handed to Vsketch.geometry is a record: attrs is the set of   *)
(* attributes it has, geom_type its kind, coords the points of a line,     *)
(* of a ring, of a point or of the exterior of a polygon, interiors the    *)
(* holes of a polygon, geoms the members of a multi-part geometry or of a  *)
(* collection.                                                             *)
(***************************************************************************)
GeomAttrs == {"is_empty", "geom_type", "coords", "exterior", "interiors", "geoms", "x", "y"}

Geom(geom_type, coords, interiors, geoms) ==
    [attrs |-> GeomAttrs, geom_type |-> geom_type, coords |-> coords,
     interiors |-> interiors, geoms |-> geoms]

LineString(coords) == Geom("LineString", coords, << >>, << >>)

LinearRing(coords) == Geom("LinearRing", coords, << >>, << >>)

Polygon(exterior, interiors) == Geom("Polygon", exterior, interiors, << >>)

Point(x, y) == Geom("Point", << <<x, y>> >>, << >>, << >>)

MultiLineString(geoms) == Geom("MultiLineString", << >>, << >>, geoms)

MultiPolygon(geoms) == Geom("MultiPolygon", << >>, << >>, geoms)

MultiPoint(geoms) == Geom("MultiPoint", << >>, << >>, geoms)

GeometryCollection(geoms) == Geom("GeometryCollection", << >>, << >>, geoms)

\* an object with a geom_type that Vsketch.geometry does not know
UnknownGeometry == Geom("Curve", << <<0, 0>>, <<1, 1>> >>, << >>, << >>)

\* an object that is no geometry: np.arange(10)
NotAGeometry ==
    [attrs |-> {"shape", "dtype"}, geom_type |-> "", coords |-> << >>,
     interiors |-> << >>, geoms |-> << >>]

RECURSIVE AllEmpty(_)
\* shapely's is_empty: no point at all in the geometry
AllEmpty(geoms) ==
    IF geoms = << >> THEN TRUE
    ELSE /\ Head(geoms).coords = << >>
         /\ AllEmpty(Head(geoms).geoms)
         /\ AllEmpty(Tail(geoms))

\* getattr(shape, "is_empty", False)
is_empty(shape) == "is_empty" \in shape.attrs /\ AllEmpty(<<shape>>)

\* result of a drawing call that may fail: the error raised ("" if none) and
\* the document at that moment
Drawn(err, doc) == [err |-> err, doc |-> doc]

RECURSIVE PolygonLoopNoHoles(_, _)
PolygonLoopNoHoles(doc, geoms) ==
    IF geoms = << >> THEN doc
    ELSE PolygonLoopNoHoles(add_polygon_to(doc, Head(geoms).coords, << >>), Tail(geoms))

RECURSIVE PolygonLoop(_, _)
\* for p in geoms: self.polygon(p.exterior.coords, holes=[hole.coords ...])
PolygonLoop(doc, geoms) ==
    IF geoms = << >> THEN doc
    ELSE PolygonLoop(add_polygon_to(doc, Head(geoms).coords, Head(geoms).interiors),
                     Tail(geoms))

RECURSIVE LineLoop(_, _)
\* for ls in shape.geoms: self.polygon(ls.coords)
LineLoop(doc, geoms) ==
    IF geoms = << >> THEN doc
    ELSE LineLoop(add_polygon_to(doc, Head(geoms).coords, << >>), Tail(geoms))

RECURSIVE PointLoop(_, _)
\* for p in geoms: self.point(p.x, p.y)
PointLoop(doc, geoms) ==
    IF geoms = << >> THEN doc
    ELSE PointLoop(point_to(doc, Head(geoms).coords[1][1], Head(geoms).coords[1][2]),
                   Tail(geoms))

UnsupportedIgnored(doc) == Drawn("", doc)

\* raise ValueError(f"unsupported Shapely geometry: {shape.geom_type}")
Unsupported(doc) == Drawn("ValueError", doc)

RECURSIVE geometry_to(_, _)
RECURSIVE CollectionLoop(_, _)
\* for geom in shape.geoms: self.geometry(geom) -- the first error ends the loop
CollectionLoop(doc, geoms) ==
    IF geoms = << >> THEN Drawn("", doc)
    ELSE LET r == geometry_to(doc, Head(geoms))
         IN  IF r.err # "" THEN r ELSE CollectionLoop(r.doc, Tail(geoms))

\* Vsketch.geometry(shape) when the document is doc
geometry_to(doc, shape) ==
    IF is_empty(shape) THEN Drawn("", doc)
    ELSE IF "geom_type" \notin shape.attrs
         THEN Drawn("ValueError", doc)   \* AttributeError, turned into ValueError
         ELSE CASE shape.geom_type = "GeometryCollection" ->
                        CollectionLoop(doc, shape.geoms)
                [] shape.geom_type \in {"LineString", "LinearRing"} ->
                        Drawn("", add_polygon_to(doc, shape.coords, << >>))
                [] shape.geom_type = "MultiLineString" ->
                        Drawn("", LineLoop(doc, shape.geoms))
                [] shape.geom_type = "Polygon" ->
                        Drawn("", PolygonLoop(doc, <<shape>>))
                [] shape.geom_type = "MultiPolygon" ->
                        Drawn("", PolygonLoop(doc, shape.geoms))
                [] shape.geom_type = "Point" ->
                        Drawn("", PointLoop(doc, <<shape>>))
                [] shape.geom_type = "MultiPoint" ->
                        Drawn("", PointLoop(doc, shape.geoms))
                [] OTHER -> Unsupported(doc)

\* the Polygon of a connected set of cells.  The areas that are drawn are
\* rectangles, possibly with rectangular holes: the exterior is the outline
\* of the bounding box and each hole is a connected set of missing cells.
PolygonFromCells(comp) ==
    LET b == << MinOf({c[1] : c \in comp}), MinOf({c[2] : c \in comp}),
                MaxOf({c[1] : c \in comp}) + 1, MaxOf({c[2] : c \in comp}) + 1 >>
        box == {<<i, j>> : i \in b[1]..(b[3] - 1), j \in b[2]..(b[4] - 1)}
        missing == Geoms(box \ comp)
        hole(h) == RectPath(MinOf({c[1] : c \in h}), MinOf({c[2] : c \in h}),
                            MaxOf({c[1] : c \in h}) - MinOf({c[1] : c \in h}) + 1,
                            MaxOf({c[2] : c \in h}) - MinOf({c[2] : c \in h}) + 1)
    IN  Polygon(RectPath(b[1], b[2], b[3] - b[1], b[4] - b[2]),
                [i \in 1..Len(missing) |-> hole(missing[i])])

\* the MultiPolygon that _compile returns for an area
AreaGeometry(area) ==
    LET polys == Geoms(area)
    IN  MultiPolygon([i \in 1..Len(polys) |-> PolygonFromCells(polys[i])])

\* the MultiLineString that _compile returns for its lines
LinesGeometry(lines) == MultiLineString([i \in 1..Len(lines) |-> LineString(lines[i])])

DefaultMaskOff(mask) == IF mask = None THEN FALSE ELSE mask[1]

\* `if mask_lines is None: mask_lines = self._cur_fill is not None`
DefaultMask(mask) == IF mask = None THEN cur_fill # None ELSE mask[1]

RECURSIVE ShapePointsLoop(_, _)
\* for point in points.geoms: self.point(point.x, point.y)
ShapePointsLoop(doc, points) ==
    IF points = << >> THEN doc
    ELSE ShapePointsLoop(point_to(doc, Head(points)[1], Head(points)[2]), Tail(points))

\* for point in points.geoms: self.point(point.x, point.y), unless the lines
\* raised
ShapePoints(r, c) ==
    IF r.err # "" THEN [err |-> r.err, doc |-> r.doc, shp |-> c.shp]
    ELSE [err |-> "", doc |-> ShapePointsLoop(r.doc, c.points), shp |-> c.shp]

\* self.geometry(lines), unless the area raised
ShapeLines(r, c) ==
    IF r.err # "" THEN [err |-> r.err, doc |-> r.doc, shp |-> c.shp]
    ELSE ShapePoints(geometry_to(r.doc, LinesGeometry(c.lines)), c)

\* self.geometry(area) on the compiled shape, then its lines and points
ShapeArea(doc, c) == ShapeLines(geometry_to(doc, AreaGeometry(c.area)), c)

\* Vsketch.shape(shp, mask_lines, mask_points): the error raised, the document
\* and the shape afterwards
shape_to(doc, shp, mask_lines, mask_points) ==
    ShapeArea(doc, Shape_compile(shp, DefaultMask(mask_lines), DefaultMask(mask_points)))

\* the objects handed to Vsketch.geometry
GeometryArgs ==
    { LinearRing(RectPath(0, 0, 4, 4)),
      LineString(<< <<0, 0>>, <<4, 0>>, <<4, 4>>, <<0, 4>> >>),
      MultiLineString(<< LineString(<< <<0, 0>>, <<4, 0>> >>),
                         LineString(<< <<0, 1>>, <<4, 1>> >>) >>),
      Polygon(RectPath(0, 0, 4, 4), << >>),
      Polygon(RectPath(0, 0, 6, 6), << RectPath(2, 2, 2, 2) >>),
      MultiPolygon(<< Polygon(RectPath(0, 0, 6, 6), << RectPath(2, 2, 2, 2) >>),
                      Polygon(RectPath(8, 0, 4, 4), << >>) >>),
      Point(2, 4),
      MultiPoint(<< Point(3, 2), Point(3, 4) >>),
      Polygon(<< >>, << >>),
      GeometryCollection(<< Point(2, 4), LineString(<< <<0, 0>>, <<4, 0>> >>) >>),
      GeometryCollection(<< LineString(<< <<0, 0>>, <<4, 0>> >>), Polygon(<< >>, << >>),
                            UnknownGeometry, Point(2, 4) >>),
      UnknownGeometry,
      NotAGeometry }

geometry ==
    \E g \in GeometryArgs :
        LET r == geometry_to(document, g)
        IN  /\ document' = r.doc
            /\ Called("geometry", <<g>>, r.err, r.err = "")
            /\ UNCHANGED notDocument

MaskArgs == {None, Some(TRUE), Some(FALSE)}

\* <<shape, mask_lines, mask_points>> of the Vsketch.shape calls
ShapeDrawArgs ==
    { a \in {"a"} \X MaskArgs \X MaskArgs :
        <<a[2], a[3]>> \in { <<None, None>>, <<Some(TRUE), Some(FALSE)>>,
                             <<Some(FALSE), Some(TRUE)>>, <<Some(TRUE), None>> } }

shape ==
    \E a \in ShapeDrawArgs :
        LET r == shape_to(document, shapes[a[1]], a[2], a[3])
        IN  /\ document' = r.doc
            /\ shapes' = [shapes EXCEPT ![a[1]] = r.shp]
            /\ Called("shape", a, "", r.err = "")
            /\ UNCHANGED <<transform_stack, styleVars, sub_document, withs, saved>>

(***************************************************************************)
(* SpecM: the matrix stack under every order of transform calls            *)
(***************************************************************************)
InitM == Init(MaxCalls, FALSE, 1)

NextM ==
    \/ pushMatrix
    \/ withPushMatrix
    \/ popMatrix
    \/ withExit
    \/ resetMatrix
    \/ withResetMatrix
    \/ scale
    \/ rotate
    \/ translate

SpecM == InitM /\ [][NextM]_vars

(***************************************************************************)
(* SpecT: transform calls followed by drawing, every call recorded         *)
(***************************************************************************)
InitT == Init(MaxHist, TRUE, 1)

NextT ==
    \/ pushMatrix
    \/ popMatrix
    \/ resetMatrix
    \/ scale
    \/ rotate
    \/ translate
    \/ line
    \/ point
    \/ polygon

SpecT == InitT /\ [][NextT]_vars

(***************************************************************************)
(* SpecD: style setters and drawing calls in every order                   *)
(***************************************************************************)
InitD == Init(MaxDrawCalls, FALSE, MaxDrawWeight)

NextD ==
    \/ stroke
    \/ noStroke
    \/ strokeWeight
    \/ strokeJoin
    \/ fill
    \/ noFill
    \/ penWidth
    \/ translate
    \/ line
    \/ rect
    \/ square
    \/ quad
    \/ polygon
    \/ point
    \/ sketch

SpecD == InitD /\ [][NextD]_vars

(***************************************************************************)
(* SpecW: stroke weights up to MaxWeight on open and closed paths          *)
(***************************************************************************)
InitW == Init(MaxWeightCalls, FALSE, MaxWeight)

NextW ==
    \/ stroke
    \/ noStroke
    \/ strokeWeight
    \/ fill
    \/ noFill
    \/ penWidth
    \/ line
    \/ rect
    \/ square
    \/ quad
    \/ polygon
    \/ point

SpecW == InitW /\ [][NextW]_vars

(***************************************************************************)
(* SpecS: the boolean shape engine                                         *)
(***************************************************************************)
InitS == Init(MaxShapeCalls, FALSE, 1)

NextS ==
    \/ ShapePolygon
    \/ ShapePoint
    \/ ShapeShape

SpecS == InitS /\ [][NextS]_vars

(***************************************************************************)
(* SpecC: shapes built from rectangles, lines and points, then compiled    *)
(***************************************************************************)
InitC == Init(MaxCompileCalls, FALSE, 1)

NextC ==
    \/ ShapeRect
    \/ ShapeLine
    \/ ShapePoint
    \/ ShapeCompile

SpecC == InitC /\ [][NextC]_vars

(***************************************************************************)
(* SpecV: shapes built, then drawn with Vsketch.shape, with and without    *)
(* an active fill                                                          *)
(***************************************************************************)
InitV == Init(MaxRenderCalls, FALSE, 1)

NextV ==
    \/ ShapeRect
    \/ ShapeLine
    \/ ShapePoint
    \/ fill
    \/ noFill
    \/ translate
    \/ shape

SpecV == InitV /\ [][NextV]_vars

(***************************************************************************)
(* SpecR: resetMatrix, bare and as a `with` block, among transform calls;  *)
(* every frame is pushed by a `with` statement and popped by its exit      *)
(***************************************************************************)
InitR == Init(MaxResetCalls, FALSE, 1)

NextR ==
    \/ resetMatrix
    \/ withResetMatrix
    \/ withPushMatrix
    \/ withExit
    \/ scale
    \/ rotate
    \/ translate

SpecR == InitR /\ [][NextR]_vars

(***************************************************************************)
(* SpecG: Vsketch.geometry on every kind of object, among style setters,   *)
(* transform calls and other drawing calls                                 *)
(***************************************************************************)
InitG == Init(MaxGeometryCalls, FALSE, 1)

NextG ==
    \/ stroke
    \/ noStroke
    \/ fill
    \/ noFill
    \/ penWidth
    \/ translate
    \/ scale
    \/ line
    \/ geometry

SpecG == InitG /\ [][NextG]_vars

(***************************************************************************)
(* SpecP: points drawn under every style and under scaled transforms       *)
(***************************************************************************)
InitP == Init(MaxPointCalls, FALSE, MaxPointWeight)

NextP ==
    \/ stroke
    \/ noStroke
    \/ strokeWeight
    \/ fill
    \/ noFill
    \/ penWidth
    \/ scale
    \/ translate
    \/ point

SpecP == InitP /\ [][NextP]_vars

(***************************************************************************)
(* SpecA: the parameters of the sketch class under validated assignments   *)
(* from the viewer and the command line, and under loaded configurations   *)
(***************************************************************************)
InitA == Init(MaxParamCalls, FALSE, 1)

NextA ==
    \/ set_value_with_validation
    \/ set_param_set

SpecA == InitA /\ [][NextA]_vars

(***************************************************************************)
(* SpecN: random numbers of two Vsketch objects, seeded, sampled and       *)
(* rebuilt in every order                                                  *)
(***************************************************************************)
InitN == Init(MaxRandomCalls, FALSE, 1)

NextN ==
    \/ randomSeed
    \/ random
    \/ randomGaussian
    \/ Vsketch_init

SpecN == InitN /\ [][NextN]_vars

(***************************************************************************)
(* SpecB: bezier curves drawn at several details and scales                *)
(***************************************************************************)
InitB == Init(MaxBezierCalls, FALSE, 1)

NextB ==
    \/ detail
    \/ scale
    \/ bezier

SpecB == InitB /\ [][NextB]_vars

(***************************************************************************)
(* SpecE: sketches executed and finalized                                   *)
(***************************************************************************)
InitE == Init(MaxExecuteCalls, TRUE, 1)

NextE ==
    \/ execute
    \/ ensure_finalized

SpecE == InitE /\ [][NextE]_vars

(***************************************************************************)
(* SpecF: rectangles and squares filled at several pen and stroke widths   *)
(***************************************************************************)
InitF == Init(MaxFillCalls, FALSE, MaxFillWeight)

NextF ==
    \/ noStroke
    \/ strokeWeight
    \/ fill
    \/ penWidth
    \/ rect
    \/ square

SpecF == InitF /\ [][NextF]_vars

(***************************************************************************)
(* SpecL: --param values parsed one after the other; the while loop, once  *)
(* entered, keeps taking turns                                              *)
(***************************************************************************)
InitL == Init(MaxParseCalls, FALSE, 1)

NextL ==
    \/ ParamSpec_post_init
    \/ ParamSpec_loop

SpecL == InitL /\ [][NextL]_vars /\ WF_vars(ParamSpec_loop)

(***************************************************************************)
(* SpecQ: the live viewer redrawn while runner threads are at work          *)
(***************************************************************************)
InitQ == Init(MaxRedraws, FALSE, 1)

NextQ ==
    \/ redraw_sketch
    \/ run_execute
    \/ run_check
    \/ run_emit
    \/ redraw_sketch_completed

SpecQ == InitQ /\ [][NextQ]_vars

(***************************************************************************)
(* Properties                                                              *)
(***************************************************************************)
\* the polylines of layer l of a document, none if the layer does not exist
Layer(doc, l) == IF l \in DOMAIN doc THEN doc[l] ELSE << >>

\* the polylines a step appends to layer l
Appended(l) == SubSeq(Layer(document', l), Len(Layer(document, l)) + 1, Len(Layer(document', l)))

\* the path, in local coordinates, that a primitive-drawing call hands to _add_polygon
DrawnPath(c) ==
    CASE c.op = "line" -> << <<c.args[1], c.args[2]>>, <<c.args[3], c.args[4]>> >>
      [] c.op = "rect" -> RectPath(c.args[1], c.args[2], c.args[3], c.args[4])
      [] c.op = "square" -> RectPath(c.args[1], c.args[2], c.args[3], c.args[3])
      [] c.op = "quad" -> << <<c.args[1], c.args[2]>>, <<c.args[3], c.args[4]>>,
                             <<c.args[5], c.args[6]>>, <<c.args[7], c.args[8]>>,
                             <<c.args[1], c.args[2]>> >>
      [] c.op = "polygon" -> ClosePath(c.args[1], c.args[3])

DrawnHoles(c) == IF c.op = "polygon" THEN c.args[2] ELSE << >>

PathClosed(path) == path[1] = path[Len(path)]

IsFillPath(pl) == pl.kind \in {"hatch", "boundary"}

PopOps == {"popMatrix", "__exit__"}

\* C1: popMatrix (called directly or by a scoped handle) fails exactly when only
\* the bottom frame is left, that is when no pushMatrix is still open; a failing
\* popMatrix changes nothing, and the stack always holds at least one frame.
C1_PopMatrixDiscipline ==
    /\ [](Len(transform_stack) >= 1 /\ Len(transform_stack) = Len(saved) + 1)
    /\ [][last'.op \in PopOps =>
            /\ (~last'.ok) <=> (Len(transform_stack) = 1)
            /\ (~last'.ok) <=> (saved = << >>)
            /\ (~last'.ok) => (transform_stack' = transform_stack)
            /\ last'.ok => (Len(transform_stack') = Len(transform_stack) - 1)]_vars

\* a popMatrix that fails after earlier calls
C1_Witness ==
    /\ last.op = "popMatrix"
    /\ ~last.ok
    /\ ncalls >= 3
    /\ Len(transform_stack) = 1

\* C2: while a pushMatrix is open, the frame it saved keeps the transform that
\* was current before the push, whatever scale, rotate, translate and resetMatrix
\* calls follow; the matching pop makes that transform current again and brings
\* the depth back to what it was before the push.  By induction on N this is the
\* claim for N pushes and their N matching pops.
C2_PushPopRestores ==
    /\ [](\A i \in 1..Len(saved) :
            /\ saved[i].depth = i
            /\ transform_stack[i] = saved[i].t)
    /\ [][(last'.op \in PopOps /\ last'.ok) =>
            /\ Transform(transform_stack') = Last(saved).t
            /\ Len(transform_stack') = Last(saved).depth]_vars

\* the last open push has just been popped, back to a non-identity transform
C2_Witness ==
    /\ last.op \in PopOps
    /\ last.ok
    /\ saved = << >>
    /\ ncalls >= 5
    /\ Transform(transform_stack) # Identity3

\* C3: every step keeps every layer of the document and keeps its polylines as
\* a prefix of the layer afterwards.
C3_AppendOnly ==
    [][/\ DOMAIN document \subseteq DOMAIN document'
       /\ \A l \in DOMAIN document : IsPrefix(document[l], document'[l])]_vars

\* three drawing calls in a row, each appended after the previous ones
C3_Witness ==
    /\ last.op \in DrawOps
    /\ ncalls >= 3
    /\ stroke_weight = 1
    /\ 1 \in DOMAIN document
    /\ Len(document[1]) = 3

\* C4: after scale, rotate and translate calls on a fresh context, a drawn local
\* point lands where the calls map it when applied to the point from the most
\* recent call back to the first; in particular after scale(sx, sy) then
\* translate(dx, dy) the point (x, y) lands at (sx*(x+dx), sy*(y+dy)), and sy
\* omitted means sy = sx.
C4_TransformOrder ==
    LET ApplyCall(c, pt) ==
            CASE c.op = "scale" ->
                    << c.args[1] * pt[1],
                       (IF Len(c.args) = 1 THEN c.args[1] ELSE c.args[2]) * pt[2] >>
              [] c.op = "translate" -> << pt[1] + c.args[1], pt[2] + c.args[2] >>
              [] c.op = "rotate" ->
                    LET q == IF c.sarg = "degrees" THEN c.args[1] \div 90 ELSE c.args[1]
                    IN  << CosQ(q) * pt[1] - SinQ(q) * pt[2],
                           SinQ(q) * pt[1] + CosQ(q) * pt[2] >>
        RECURSIVE LocalToDoc(_, _)
        LocalToDoc(calls, pt) ==
            IF calls = << >> THEN pt
            ELSE LocalToDoc(Front(calls), ApplyCall(Last(calls), pt))
        before == Front(hist)
        drawn == Last(document[1]).pts
    IN  /\ (/\ hist # << >>
            /\ last.op \in {"line", "point"}
            /\ \A i \in 1..(Len(hist) - 1) : hist[i].op \in {"scale", "rotate", "translate"})
           => IF last.op = "point"
              THEN drawn = << LocalToDoc(before, <<last.args[1], last.args[2]>>) >>
              ELSE drawn = << LocalToDoc(before, <<last.args[1], last.args[2]>>),
                              LocalToDoc(before, <<last.args[3], last.args[4]>>) >>
        /\ (/\ Len(hist) = 3
            /\ hist[1].op = "scale"
            /\ hist[2].op = "translate"
            /\ hist[3].op = "point")
           => LET sx == hist[1].args[1]
                  sy == IF Len(hist[1].args) = 1 THEN sx ELSE hist[1].args[2]
              IN  drawn = << << sx * (hist[3].args[1] + hist[2].args[1]),
                                sy * (hist[3].args[2] + hist[2].args[2]) >> >>

\* scale(3, 2); translate(5, 3); point(2, 4) puts the point at (21, 14)
C4_Witness ==
    /\ Len(hist) = 3
    /\ hist[1] = CallRec("scale", <<3, 2>>, "", TRUE)
    /\ hist[2] = CallRec("translate", <<5, 3>>, "", TRUE)
    /\ hist[3] = CallRec("point", <<2, 4>>, "", TRUE)
    /\ Last(document[1]).pts = << <<21, 14>> >>

C7_PrimitiveFrame ==
    [][last'.op \in PrimitiveOps
       => /\ UNCHANGED <<transform_stack, cur_stroke, cur_fill, stroke_weight,
                         join_style, pen_width, default_pen_width>>
          /\ (Truthy(cur_stroke) /\ cur_fill = None)
             => /\ Len(Appended(cur_stroke[1])) >= 1
                /\ DOMAIN document' = DOMAIN document \cup {cur_stroke[1]}
                /\ \A l \in DOMAIN document' \ {cur_stroke[1]} : document'[l] = document[l]
          /\ (cur_stroke = None /\ cur_fill = None) => document' = document]_vars

\* a primitive drawn on layer 2 after another was drawn on layer 1
C7_Witness ==
    /\ last.op \in PrimitiveOps
    /\ cur_stroke = Some(2)
    /\ cur_fill = None
    /\ DOMAIN document = {1, 2}
    /\ Len(document[1]) = 1
    /\ Len(document[2]) = 1

\* C8: adding an open path to a Shape succeeds exactly when there are no holes
\* and op is "union", and then appends that one line and leaves area and points
\* alone; otherwise it fails and leaves the shape alone.  No step changes the
\* lines of a shape other than by appending.
C8_OpenPathLines ==
    /\ [][(last'.op = "Shape.polygon" /\ ~PathClosed(last'.args[2]))
          => LET s == last'.args[1]
             IN  /\ last'.ok <=> (last'.args[3] = << >> /\ last'.sarg = "union")
                 /\ last'.ok => shapes'[s] = [shapes[s] EXCEPT
                                                !.lines = Append(@, last'.args[2])]
                 /\ (~last'.ok) => shapes'[s] = shapes[s]
                 /\ \A o \in DOMAIN shapes \ {s} : shapes'[o] = shapes[o]]_vars
    /\ [][\A s \in DOMAIN shapes : IsPrefix(shapes[s].lines, shapes'[s].lines)]_vars

\* an open path refused for op "difference" on a shape that already holds a line
C8_Witness ==
    /\ last.op = "Shape.polygon"
    /\ ~PathClosed(last.args[2])
    /\ last.sarg = "difference"
    /\ last.args[3] = << >>
    /\ ~last.ok
    /\ Len(shapes[last.args[1]].lines) = 1

\* C9: adding a closed path P with holes to a Shape of area A with one of the
\* four operations makes the area A op polygon(P, holes) and leaves lines and
\* points alone; any other op fails and leaves the shape alone.
C9_ClosedPathArea ==
    [][(last'.op = "Shape.polygon" /\ PathClosed(last'.args[2]))
       => LET s == last'.args[1]
              A == shapes[s].polygon
              P == CellsOf(last'.args[2])
                      \ UNION {CellsOf(last'.args[3][i]) : i \in 1..Len(last'.args[3])}
              op == last'.sarg
          IN  /\ last'.ok <=> op \in ValidOps
              /\ op = "union" => shapes'[s].polygon = A \cup P
              /\ op = "difference" => shapes'[s].polygon = A \ P
              /\ op = "intersection" => shapes'[s].polygon = A \cap P
              /\ op = "symmetric_difference" => shapes'[s].polygon = (A \ P) \cup (P \ A)
              /\ op \notin ValidOps => shapes'[s] = shapes[s]
              /\ shapes'[s].lines = shapes[s].lines
              /\ shapes'[s].points = shapes[s].points]_vars

\* a rectangle with a hole subtracted from a non-empty area, part of which remains
C9_Witness ==
    /\ last.op = "Shape.polygon"
    /\ last.args[3] # << >>
    /\ PathClosed(last.args[2])
    /\ last.sarg = "difference"
    /\ last.ok
    /\ shapes[last.args[1]].polygon = {<<1, 1>>}

\* C10: after a.shape(b, op) with one of the four operations, the area of a is
\* (previous area of a) op (area of b), for every b.
C10_ShapeCombineArea ==
    [][(last'.op = "Shape.shape" /\ last'.sarg \in ValidOps)
       => LET A == shapes[last'.args[1]].polygon
              B == shapes[last'.args[2]].polygon
              op == last'.sarg
              R == shapes'[last'.args[1]].polygon
          IN  /\ op = "union" => R = A \cup B
              /\ op = "difference" => R = A \ B
              /\ op = "intersection" => R = A \cap B
              /\ op = "symmetric_difference" => R = (A \ B) \cup (B \ A)]_vars

\* C11: a.shape(b, op) with op "union" appends b's lines and b's points, in b's
\* order, after a's own; with any other op it leaves a's lines and points alone;
\* every shape other than a (b included, when it is not a) is left as it was.
C11_ShapeLinesPoints ==
    [][last'.op = "Shape.shape"
       => LET a == last'.args[1]
              b == last'.args[2]
          IN  /\ last'.sarg = "union"
                 => /\ shapes'[a].lines = shapes[a].lines \o shapes[b].lines
                    /\ shapes'[a].points = shapes[a].points \o shapes[b].points
              /\ last'.sarg # "union"
                 => /\ shapes'[a].lines = shapes[a].lines
                    /\ shapes'[a].points = shapes[a].points
              /\ \A o \in DOMAIN shapes \ {a} : shapes'[o] = shapes[o]]_vars

\* a.shape(b) appends the two points of b, in b's order, after the two of a
C11_Witness ==
    /\ last.op = "Shape.shape"
    /\ last.args = <<"a", "b">>
    /\ last.sarg = "union"
    /\ shapes["b"].points = << <<1, 1>>, <<3, 3>> >>
    /\ shapes["a"].points = << <<1, 1>>, <<3, 3>>, <<1, 1>>, <<3, 3>> >>

\* C12: compiling a Shape, with any combination of mask_lines and mask_points,
\* leaves the area, lines and points of every shape as they were; so a compile
\* repeated with the same masks returns the same value, and a compile with the
\* masks off that follows any other compile returns all stored lines and points.
C12_CompileNonMutating ==
    [][last'.op = "Shape._compile"
       => /\ shapes' = shapes
          /\ (last.op = "Shape._compile" /\ last.args = last'.args) => returned' = returned
          /\ (last.op = "Shape._compile" /\ ~last'.args[2] /\ ~last'.args[3])
             => /\ returned'.lines = shapes[last'.args[1]].lines
                /\ returned'.points = shapes[last'.args[1]].points]_vars

\* a compile with both masks off right after one with both masks on, on a shape
\* whose line and point are touched by the masks
C12_Witness ==
    /\ last.op = "Shape._compile"
    /\ last.args = <<"a", FALSE, FALSE>>
    /\ ncalls = 5
    /\ shapes["a"].polygon # {}
    /\ returned.lines = << << <<0, 0>>, <<3, 3>> >> >>
    /\ returned.points = << <<1, 1>> >>

\* C13: with mask_points on, the points returned by a compile are the stored
\* points that do not intersect the area, in insertion order, and with it off
\* all the stored points; with mask_lines off the returned lines are the stored
\* lines; with mask_lines on no step of a returned line runs through the area
\* and every step of a stored line outside the area is part of a returned line.
C13_CompileMasks ==
    [][last'.op = "Shape._compile"
       => LET shp == shapes[last'.args[1]]
              mask_lines == last'.args[2]
              mask_points == last'.args[3]
              InArea(pt) == \E c \in shp.polygon :
                                /\ c[1] <= pt[1] /\ pt[1] <= c[1] + 1
                                /\ c[2] <= pt[2] /\ pt[2] <= c[2] + 1
              Steps(ln) == {<<StepPoint(ln, k - 1), StepPoint(ln, k)>> : k \in 1..StepCount(ln)}
              Inside(st) == <<Min(st[1][1], st[2][1]), Min(st[1][2], st[2][2])>> \in shp.polygon
              stored == UNION {Steps(shp.lines[i]) : i \in 1..Len(shp.lines)}
              got == UNION {Steps(returned'.lines[i]) : i \in 1..Len(returned'.lines)}
          IN  /\ returned'.area = shp.polygon
              /\ mask_points
                 => returned'.points = SelectSeq(shp.points, LAMBDA pt : ~InArea(pt))
              /\ ~mask_points => returned'.points = shp.points
              /\ ~mask_lines => returned'.lines = shp.lines
              /\ mask_lines => /\ \A st \in got : ~Inside(st)
                               /\ {st \in stored : ~Inside(st)} \subseteq got
                               /\ got \subseteq stored]_vars

\* a compile with both masks on that cuts the middle out of a line and drops
\* the first of two points
C13_Witness ==
    /\ last.op = "Shape._compile"
    /\ last.args = <<"a", TRUE, TRUE>>
    /\ shapes["a"].polygon = {<<1, 1>>}
    /\ shapes["a"].points = << <<1, 1>>, <<3, 3>> >>
    /\ returned.points = << <<3, 3>> >>
    /\ shapes["a"].lines = << << <<0, 0>>, <<3, 3>> >> >>
    /\ returned.lines = << << <<0, 0>>, <<1, 1>> >>, << <<2, 2>>, <<3, 3>> >> >>

\* C14: Vsketch.shape draws what the shape compiles to with each mask taken
\* from the argument when it is given and, when it is omitted, on exactly when
\* a fill layer is active.  On the stroke layer it appends first one closed
\* path per ring of the area, then the compiled lines, then one circle per
\* compiled point, all mapped by the current transform.
C14_ShapeMaskDefaults ==
    [][last'.op = "shape"
       => LET shp == shapes[last'.args[1]]
              Mask(arg) == IF arg = None THEN cur_fill # None ELSE arg[1]
              c == Shape_compile(shp, Mask(last'.args[2]), Mask(last'.args[3]))
              polys == AreaGeometry(c.area).geoms
              RECURSIVE Rings(_)
              Rings(k) == IF k = 0 THEN 0 ELSE 1 + Len(polys[k].interiors) + Rings(k - 1)
              nA == Rings(Len(polys))
              nL == Len(c.lines)
              nP == Len(c.points)
              strokes == SelectSeq(Appended(cur_stroke[1]), LAMBDA pl : ~IsFillPath(pl))
          IN  /\ last'.ok
              /\ Len(strokes) = nA + nL + nP
              /\ \A i \in 1..nA : strokes[i].kind = "path" /\ IsClosed(strokes[i])
              /\ \A i \in 1..nL : strokes[nA + i] = PathLine(transform_line(c.lines[i]))
              /\ \A i \in 1..nP :
                    /\ strokes[nA + nL + i].kind = "circle"
                    /\ strokes[nA + nL + i].pts = transform_line(<<c.points[i]>>)]_vars

\* with fill(2) active and the masks omitted, a shape made of a square and a
\* line through it is drawn as the square followed by the two ends of the line
C14_Witness ==
    /\ last.op = "shape"
    /\ last.args = <<"a", None, None>>
    /\ cur_fill = Some(2)
    /\ shapes["a"].polygon = {<<1, 1>>}
    /\ Len(shapes["a"].lines) = 1
    /\ Len(Layer(document, 1)) = 3
    /\ document[1][1].pts = RectPath(1, 1, 1, 1)
    /\ document[1][2].pts = << <<0, 0>>, <<1, 1>> >>
    /\ document[1][3].pts = << <<2, 2>>, <<3, 3>> >>

\* C15: vsk.sketch(sub), sub being another Vsketch, appends to each layer L of
\* vsk one polyline per polyline of layer L of sub, in order, each mapped by the
\* current transform of vsk, whatever the stroke layer, fill layer, stroke weight
\* and pen widths of vsk (also under noStroke); it creates the layers that are
\* missing, leaves the other layers of vsk, the style of vsk and the document of
\* sub as they were.
C15_SketchSub ==
    [][(last'.op = "sketch" /\ last'.sarg = "sub")
       => LET T == Transform(transform_stack)
              Mapped(pl) == IF pl.kind = "path"
                            THEN [pl EXCEPT !.pts = TransformPath(T, @)]
                            ELSE [pl EXCEPT !.xf = MatMul(T, @)]
          IN  /\ DOMAIN document' = DOMAIN document \cup DOMAIN sub_document
              /\ \A L \in DOMAIN sub_document :
                    /\ IsPrefix(Layer(document, L), document'[L])
                    /\ Appended(L) = [i \in 1..Len(sub_document[L]) |->
                                         Mapped(sub_document[L][i])]
              /\ \A L \in DOMAIN document \ DOMAIN sub_document : document'[L] = document[L]
              /\ sub_document' = sub_document
              /\ UNCHANGED <<transform_stack, styleVars>>]_vars

\* sketch(sub) under noStroke and a translation: layers 1 and 3 are created
\* and hold the translated polylines of sub
C15_Witness ==
    /\ last.op = "sketch"
    /\ last.sarg = "sub"
    /\ cur_stroke = None
    /\ Transform(transform_stack) = TranslateMatrix(5, 3)
    /\ DOMAIN document = {1, 3}
    /\ document[3] = <<PathLine(<< <<5, 3>>, <<6, 4>> >>)>>
    /\ Len(document[1]) = 1

\* C16: vsk.sketch(vsk) ends, creates no layer, and leaves every layer holding
\* its polylines of before the call followed by one copy of each of them mapped
\* by the current transform: twice as many as before, none of them the copy of
\* a copy.
C16_SketchSelf ==
    [][(last'.op = "sketch" /\ last'.sarg = "self")
       => LET T == Transform(transform_stack)
              Mapped(pl) == IF pl.kind = "path"
                            THEN [pl EXCEPT !.pts = TransformPath(T, @)]
                            ELSE [pl EXCEPT !.xf = MatMul(T, @)]
          IN  /\ last'.ok
              /\ DOMAIN document' = DOMAIN document
              /\ \A L \in DOMAIN document :
                    /\ Len(document'[L]) = 2 * Len(document[L])
                    /\ document'[L] = document[L] \o
                            [i \in 1..Len(document[L]) |-> Mapped(document[L][i])]]_vars

\* line, translate, sketch(vsk): the layer holds the line and its translated copy
C16_Witness ==
    /\ last.op = "sketch"
    /\ last.sarg = "self"
    /\ Transform(transform_stack) = TranslateMatrix(5, 3)
    /\ DOMAIN document = {1}
    /\ document[1] = <<PathLine(<< <<0, 0>>, <<4, 0>> >>), PathLine(<< <<5, 3>>, <<9, 3>> >>)>>

\* C20: a bare resetMatrix() makes the top frame the identity and leaves the
\* depth and the frames below alone.  `with vsk.resetMatrix():` enters its
\* block with the identity as current transform, on top of the untouched
\* frames of before the call; leaving the block brings back the transform
\* that was current right before the resetMatrix call, and the depth.
C20_ResetMatrix ==
    /\ [](Len(withs) = Len(saved))
    /\ [][last'.op = "resetMatrix"
          => /\ Len(transform_stack') = Len(transform_stack)
             /\ Transform(transform_stack') = Identity3
             /\ Front(transform_stack') = Front(transform_stack)]_vars
    /\ [][last'.op = "with resetMatrix"
          => /\ Transform(transform_stack') = Identity3
             /\ Front(transform_stack') = transform_stack]_vars
    /\ [][(last'.op = "__exit__" /\ last'.args = <<"ResetMatrixContextManager">>)
          => /\ last'.ok
             /\ Transform(transform_stack') = Last(saved).t
             /\ Len(transform_stack') = Last(saved).depth
             /\ transform_stack' = Front(transform_stack)]_vars

\* scale; with resetMatrix: translate -- after the block the scale is back
C20_Witness ==
    /\ last.op = "__exit__"
    /\ last.args = <<"ResetMatrixContextManager">>
    /\ ncalls = 4
    /\ withs = << >>
    /\ Len(transform_stack) = 1
    /\ Transform(transform_stack) = ScaleMatrix(3, 2)

\* C17: Vsketch.geometry fails, with a ValueError, exactly for an object that
\* is not a geometry, for a geometry of an unknown kind, and for a collection
\* in which such an object is met; whether it fails or not, every layer keeps
\* its polylines of before the call as a prefix, and the transform stack and
\* the style are left alone.  An empty geometry raises nothing and draws nothing.
C17_GeometryErrors ==
    [][last'.op = "geometry"
       => LET g == last'.args[1]
              Known == {"GeometryCollection", "LineString", "LinearRing", "MultiLineString",
                        "Polygon", "MultiPolygon", "Point", "MultiPoint"}
              Empty(o) == /\ "is_empty" \in o.attrs
                          /\ o.coords = << >>
                          /\ \A i \in 1..Len(o.geoms) : o.geoms[i].coords = << >>
              Bad(o) == ~Empty(o) /\ ("geom_type" \notin o.attrs \/ o.geom_type \notin Known)
              Fails == \/ Bad(g)
                       \/ /\ ~Empty(g)
                          /\ g.geom_type = "GeometryCollection"
                          /\ \E i \in 1..Len(g.geoms) : Bad(g.geoms[i])
          IN  /\ (~last'.ok) <=> Fails
              /\ (~last'.ok) => last'.sarg = "ValueError"
              /\ DOMAIN document \subseteq DOMAIN document'
              /\ \A l \in DOMAIN document : IsPrefix(document[l], document'[l])
              /\ UNCHANGED <<transform_stack, styleVars>>
              /\ Empty(g) => (last'.ok /\ document' = document)]_vars

\* a collection whose third member is of an unknown kind, drawn after a line:
\* the call fails, the line is still there and so is the member drawn before
\* the failure
C17_Witness ==
    /\ last.op = "geometry"
    /\ ~last.ok
    /\ last.args[1].geom_type = "GeometryCollection"
    /\ cur_fill = Some(2)
    /\ DOMAIN document = {1}
    /\ Len(document[1]) = 2

\* C18: with a stroke layer active at weight 1 and fill disabled, Vsketch.geometry
\* appends to the stroke layer one path per LineString or LinearRing, one per
\* line of a MultiLineString, the exterior then the holes of a Polygon, the same
\* for each polygon of a MultiPolygon in turn, one circle per point of a Point
\* or MultiPoint, and nothing for an empty geometry; each path is the point
\* sequence of the component mapped by the current transform, each circle is
\* centred on the mapped point; no other layer changes.
C18_GeometryPaths ==
    [][(/\ last'.op = "geometry"
        /\ last'.ok
        /\ last'.args[1].geom_type # "GeometryCollection"
        /\ Truthy(cur_stroke)
        /\ stroke_weight = 1
        /\ cur_fill = None)
       => LET g == last'.args[1]
              T == Transform(transform_stack)
              Path(coords) == PathLine(TransformPath(T, coords))
              Rings(poly) == <<Path(poly.coords)>> \o
                             [i \in 1..Len(poly.interiors) |-> Path(poly.interiors[i])]
              RECURSIVE AllRings(_)
              AllRings(polys) == IF polys = << >> THEN << >>
                                 ELSE Rings(Head(polys)) \o AllRings(Tail(polys))
              Circle(pt) == Polyline("circle", TransformPath(T, pt.coords), strokePenWidth, 0, "")
              expected ==
                  CASE g.coords = << >> /\ g.geoms = << >> -> << >>
                    [] g.geom_type \in {"LineString", "LinearRing"} -> <<Path(g.coords)>>
                    [] g.geom_type = "MultiLineString" ->
                            [i \in 1..Len(g.geoms) |-> Path(g.geoms[i].coords)]
                    [] g.geom_type = "Polygon" -> Rings(g)
                    [] g.geom_type = "MultiPolygon" -> AllRings(g.geoms)
                    [] g.geom_type = "Point" -> <<Circle(g)>>
                    [] g.geom_type = "MultiPoint" -> [i \in 1..Len(g.geoms) |-> Circle(g.geoms[i])]
          IN  /\ Appended(cur_stroke[1]) = expected
              /\ \A l \in DOMAIN document' \ {cur_stroke[1]} :
                    l \in DOMAIN document /\ document'[l] = document[l]]_vars

\* a MultiPolygon of a square with a hole and a plain square, drawn under a
\* scale: three paths, the hole second
C18_Witness ==
    /\ last.op = "geometry"
    /\ last.args[1].geom_type = "MultiPolygon"
    /\ Transform(transform_stack) = ScaleMatrix(3, 2)
    /\ cur_stroke = Some(1)
    /\ cur_fill = None
    /\ Len(Layer(document, 1)) = 3
    /\ document[1][2].pts = << <<6, 4>>, <<12, 4>>, <<12, 8>>, <<6, 8>>, <<6, 4>> >>

C22_NeverRaises ==
    [][/\ last'.op = "set_param_set" => last'.ok
       /\ last'.op = "set_value_with_validation"
          => LET name == last'.args[1]
                 c == Convert(params[name].type, last'.args[2])
                 rejected == c.exc # "" \/ NotAChoice(params[name], c.val)
             IN  /\ last'.ok
                 /\ returned' = Some(~rejected)
                 /\ rejected => params' = params]_vars

\* C23: on a numeric Param with bounds and no choices, a validated assignment
\* of a convertible v returns True and stores min(max, max(min, v)), a bound
\* that was not given counting as absent; the stored value then lies within the
\* bounds, also where a bound is 0.
C23_Clamped ==
    [][last'.op = "set_value_with_validation"
       => LET name == last'.args[1]
              prm == params[name]
              c == Convert(prm.type, last'.args[2])
              lo == IF prm.min = None THEN c.val.n ELSE Max(prm.min[1].n, c.val.n)
              want == IF prm.max = None THEN lo ELSE Min(prm.max[1].n, lo)
          IN  (/\ prm.type \in {"int", "float"}
               /\ prm.choices = None
               /\ prm.min # None \/ prm.max # None
               /\ c.exc = "")
              => /\ last'.ok
                 /\ returned' = Some(TRUE)
                 /\ params'[name].value = Py(prm.type, want, "")
                 /\ prm.min # None => params'[name].value.n >= prm.min[1].n
                 /\ prm.max # None => params'[name].value.n <= prm.max[1].n
                 /\ \A o \in DOMAIN params \ {name} : params'[o] = params[o]]_vars

\* the float parameter bounded by -5.0 and 0.0 is given 2.5 and ends at 0.0,
\* after the int parameter bounded by 0 and 10 was given -3 and ended at 0
C23_Witness ==
    /\ last.op = "set_value_with_validation"
    /\ last.args = <<"offset", PyFloat(25)>>
    /\ returned = Some(TRUE)
    /\ params["offset"].value = PyFloat(0)
    /\ params["count"].value = PyInt(0)

RECURSIVE Replay(_, _)
\* the generator and the value returned last when the calls are made, in
\* order, on a generator just seeded
Replay(seed, calls) ==
    IF calls = << >> THEN [gen |-> Random_seed(seed), value |-> None]
    ELSE LET before == Replay(seed, Front(calls))
             call == Last(calls)
             r == IF call[1] = "random"
                  THEN Random_uniform(before.gen,
                                      IF call[2][2] = None THEN 0 ELSE call[2][1],
                                      IF call[2][2] = None THEN call[2][1] ELSE call[2][2][1])
                  ELSE Random_gauss(before.gen)
         IN  [gen |-> r.gen, value |-> Some(r.value)]

\* C24: the value a random or randomGaussian call returns is the one that the
\* calls made since the last randomSeed(s) give on a generator just seeded with
\* s, whatever was sampled or seeded before; random_seed is the seed given to
\* the last randomSeed, and sampling leaves it alone.
C24_SeededDeterminism ==
    [][/\ last'.op \in {"random", "randomGaussian"}
          => LET w == last'.args[1]
             IN  /\ returned' = Replay(rng[w].random_seed, rng'.calls[w]).value
                 /\ rng'[w].random_seed = rng[w].random_seed
       /\ last'.op = "randomSeed"
          => rng'[last'.args[1]].random_seed = last'.args[2]]_vars

\* randomSeed(42), randomGaussian(), randomSeed(42), randomGaussian(): the
\* second Gaussian is the first one again, not the value kept from the pair
C24_Witness ==
    /\ ncalls = 4
    /\ last.op = "randomGaussian"
    /\ last.args[1] = "vsk"
    /\ rng.vsk.random_seed = 42
    /\ rng.calls["vsk"] = << <<"randomGaussian", << >> >> >>
    /\ rng.vsk.random.gauss_next # None
    /\ returned = Some(<<"gauss", "cos", SeedState(42), Advance(SeedState(42))>>)

C26_SegmentsBelowDetail ==
    [][(/\ last'.op = "bezier"
        /\ Truthy(cur_stroke)
        /\ stroke_weight = 1
        /\ \E k \in 1..4 : Transform(transform_stack) = ScaleMatrix(k, k))
       => LET got == Appended(cur_stroke[1])
          IN  \A i \in 1..Len(got) : \A j \in 1..(Len(got[i].pts) - 1) :
                 LET dx == got[i].pts[j + 1][1] - got[i].pts[j][1]
                     dy == got[i].pts[j + 1][2] - got[i].pts[j][2]
                 IN  dx * dx + dy * dy < _detail * _detail]_vars

\* the calls of document.translate that moved the document
RealMoves(sk) == { i \in 1..Len(sk.moves) : sk.moves[i] # <<0, 0>> }

\* C27 as stated: on a finalized sketch the finalize hook has run exactly
\* once and, when centering is enabled and there is something to centre, the
\* document was moved by exactly one re-centering translation.
C27_TranslatedOnce ==
    (sketch_obj # None /\ sketch_obj[1].finalized)
        => /\ sketch_obj[1].runs = 1
           /\ (sketch_obj[1].centered /\ DocBounds(sketch_obj[1].doc) # None)
                 => Cardinality(RealMoves(sketch_obj[1])) = 1

\* C27 amended: the finalize hook runs at most once, and once exactly when the
\* sketch is finalized; execute centres the document and the first
\* ensure_finalized centres it again after the hook, so that a sketch with
\* centering enabled is centred on its page after every call and a sketch
\* without is never moved; ensure_finalized on a finalized sketch changes
\* nothing.
C27_FinalizedOnce ==
    [][/\ sketch_obj' # None
          => LET sk == sketch_obj'[1]
             IN  /\ sk.runs = (IF sk.finalized THEN 1 ELSE 0)
                 /\ Len(sk.moves) = (IF sk.centered /\ DocBounds(sk.doc) # None
                                     THEN 1 + sk.runs ELSE 0)
                 /\ (sk.centered /\ DocBounds(sk.doc) # None)
                        => CenterOffset(DocBounds(sk.doc), sk.page_size[1]) = <<0, 0>>
       /\ (last'.op = "ensure_finalized" /\ sketch_obj[1].finalized)
          => sketch_obj' = sketch_obj]_vars

\* executed without finalize, then finalized by a first ensure_finalized whose
\* hook changed the bounds, then a second ensure_finalized: two translations
C27_Witness ==
    /\ Len(hist) >= 3
    /\ hist[Len(hist)].op = "ensure_finalized"
    /\ hist[Len(hist) - 1].op = "ensure_finalized"
    /\ hist[Len(hist) - 2].op = "execute"
    /\ hist[Len(hist) - 2].args[3] = FALSE
    /\ sketch_obj[1].runs = 1
    /\ Cardinality(RealMoves(sketch_obj[1])) = 2

\* the y of the points of the hatch that a step appends to layer l
HatchYs(l) ==
    { Appended(l)[i].pts[j][2] : <<i, j>> \in
        { c \in (1..Len(Appended(l))) \X (1..64) :
            Appended(l)[c[1]].kind = "hatch" /\ c[2] <= Len(Appended(l)[c[1]].pts) } }

\* the fill paths that a step appends to layer l
AppendedFill(l) == SelectSeq(Appended(l), IsFillPath)

\* C28: a filled rect, square, quad or polygon whose inset by half the stroke
\* width is empty gets no fill path; otherwise, with H the height of the inset
\* bounding box, the comb has N = ceil(H / pen_width) + 1 scanlines, starts at
\* min_y + (H - (N - 1) * pen_width) / 2, is centred on the box, spans at least
\* H, and every scanline of the appended hatch is one of the comb.
\* Lengths are doubled.
C28_ScanlineComb ==
    [][(/\ last'.op \in {"rect", "square", "quad", "polygon"}
        /\ last'.ok
        /\ Truthy(cur_fill)
        /\ FillableLength(DrawnPath(last')))
       => LET ext == transform_line(DrawnPath(last'))
              holes == [i \in 1..Len(DrawnHoles(last')) |-> transform_line(DrawnHoles(last')[i])]
              sw == stroke_weight * strokePenWidth
              pw == 2 * fillPenWidth[1]
              min_y == InsetBounds(ext, sw)[2]
              max_y == InsetBounds(ext, sw)[4]
              H == max_y - min_y
              N == FillLineCount(H, pw)
              y_start == FillYStart(min_y, H, pw)
          IN  IF InsetEmpty(ext, holes, sw)
              THEN AppendedFill(cur_fill[1]) = << >>
              ELSE /\ N >= 1
                   /\ (N - 1) * pw >= H
                   /\ (N - 2) * pw < H
                   /\ 2 * y_start = 2 * min_y + (H - (N - 1) * pw)
                   /\ y_start - min_y = max_y - (y_start + (N - 1) * pw)
                   /\ AppendedFill(cur_fill[1]) # << >>
                   /\ \A y \in HatchYs(cur_fill[1]) :
                         \E n \in 0..(N - 1) : y = y_start + n * pw]_vars

\* a filled square whose comb overhangs the inset bounding box by the same
\* amount on both sides, with a hatch drawn
C28_Witness ==
    /\ last.op = "square"
    /\ Truthy(cur_fill)
    /\ FillableLength(DrawnPath(last))
    /\ LET ext == transform_line(DrawnPath(last))
           sw == stroke_weight * strokePenWidth
           pw == 2 * fillPenWidth[1]
           H == InsetBounds(ext, sw)[4] - InsetBounds(ext, sw)[2]
       IN  /\ ~InsetEmpty(ext, << >>, sw)
           /\ FillYStart(InsetBounds(ext, sw)[2], H, pw) < InsetBounds(ext, sw)[2]
           /\ \E i \in 1..Len(Layer(document, cur_fill[1])) :
                 Layer(document, cur_fill[1])[i].kind = "hatch"

\* C29: the parsing of a range terminates: a _ParamSpec that has entered its
\* while loop leaves it.
C29_RangeTerminates == (param_spec.pc = "loop") ~> (param_spec.pc = "done")

\* C30: once every runner thread has finished and every signal has been
\* handled, the sketch on display is that of the run started last.
C30_LatestRunShown ==
    (/\ viewer.threads # << >>
     /\ viewer.queue = << >>
     /\ \A t \in 1..Len(viewer.threads) : viewer.threads[t].pc = "done")
        => viewer.sketch = Some(Len(viewer.threads))

====
